---------------------------- MODULE Spec2Model ----------------------------
(***************************************************************************)
(* A model of the treeow integration's synchronisation core:               *)
(*   - the digital-model (capability schema) cache of TreeowClient,        *)
(*   - the token manager (_try_update_token) and its loop (_token_updater),*)
(*   - the listening session (TreeowClient.listen_devices) and its polls,  *)
(*     its heartbeat tasks and its control consumer,                       *)
(*   - the group-based device listing (TreeowClient.get_devices).          *)
(* Every await of the Python code is a suspension point: a coroutine is    *)
(* split into one action per stretch of code between two awaits.           *)
(***************************************************************************)
EXTENDS Integers, Sequences, FiniteSets, TLC

(***************************************************************************)
(* Program constants.                                                      *)
(***************************************************************************)
CACHE_EXPIRATION == 3600
DEFAULT_POLL_INTERVAL == 5

HEARTBEAT_INTERVAL == 10
DEVICE_POLL_INTERVAL == 1
RETRY_DELAY == 5
RETRY_MULTIPLIER == 2
MAX_RETRY_DELAY == 60
\* if cache_cleanup_counter >= 60
CLEANUP_EVERY == 60
\* heartbeat_retry_delay = 1
HEARTBEAT_RETRY_DELAY == 1
\* min(heartbeat_retry_delay * 2, HEARTBEAT_INTERVAL)
HEARTBEAT_RETRY_MULTIPLIER == 2
TOKEN_CHECK_INTERVAL == 3600
TOKEN_REFRESH_THRESHOLD == 86400
TOKEN_RETRY_DELAY == 30
TOKEN_RETRY_MULTIPLIER == 2
TOKEN_MAX_RETRY_DELAY == 300

(***************************************************************************)
(* Bounds of the model.                                                    *)
(***************************************************************************)
\* the clock of the cache specification runs from 0 to MaxNow
MaxNow == 3600

\* the clock of the token specification runs from 0 to MaxTokenNow
MaxTokenNow == 3600
\* the cloud issues at most MaxIssued token pairs, the first one at set-up
MaxIssued == 3

\* a session of the model runs at most MaxCycles poll cycles
MaxCycles == 3

\* consecutive failures of a loop are counted up to MaxFails
MaxFails == 6

\* at most MaxSessions sessions are started on the Home Assistant instance
MaxSessions == 2

\* the control consumer handles at most MaxCommands control events
MaxCommands == 2

\* a caller composes the headers of at most MaxCalls requests
MaxCalls == 2

\* an entity receives at most MaxEvents events after it was added
MaxEvents == 2

Devices == {"d1", "d2"}

\* target_devices, in the order of the list
DeviceSeq == <<"d1", "d2">>
Versions == {1, 2}
Callers == {"c1", "c2"}

\* the clock advances by one of these amounts: one second short of the
\* cache TTL, or exactly the TTL, so that ages 0, 1, TTL-1, TTL, TTL+1 occur
CacheSteps == {CACHE_EXPIRATION - 1, CACHE_EXPIRATION}

\* the clock of the token specification advances by the check interval
TokenSteps == {TOKEN_CHECK_INTERVAL}

\* expires_at of the credentials stored when the model starts, at time 0:
\* 12 hours, exactly 1 day, 1 day and 1 second, 2 days
InitExpiry == {TOKEN_REFRESH_THRESHOLD \div 2, TOKEN_REFRESH_THRESHOLD,
               TOKEN_REFRESH_THRESHOLD + 1, 2 * TOKEN_REFRESH_THRESHOLD}

\* expiresIn of a login or refresh response
ExpiresIn == {TOKEN_REFRESH_THRESHOLD, 2 * TOKEN_REFRESH_THRESHOLD}

\* identifiers of the capability schema entries the cloud knows
IdPool == <<"pm25", "switch", "mode", "speed">>

\* the decoded value dicts a device snapshot response may carry: capability
\* key -> raw value ("rssi" is in no schema, "mode" only in that of version 2)
Payloads == { [k \in {"pm25", "mode", "rssi"} |-> IF k = "pm25" THEN 12 ELSE 1],
              [k \in {"pm25", "switch"} |-> IF k = "pm25" THEN 35 ELSE 0] }

\* the value dict the devices reported when they were initialised
InitPayload == [k \in {"pm25", "switch"} |-> IF k = "pm25" THEN 12 ELSE 1]

Min(a, b) == IF a < b THEN a ELSE b

VARIABLES
    now,            \* time.time(), in seconds
    dmCache,        \* TreeowClient._digital_model_cache: device id -> list
    dmCacheTime,    \* TreeowClient._digital_model_cache_time: device id -> time
    devVersion,     \* TreeowDevice.version of the device object of each id
    call,           \* per caller: the get_digital_model_from_cache call in flight
    entryVer,       \* history: version under which the cached list was fetched
    lastGet         \* history: the get call that completed last

cacheVars == <<dmCache, dmCacheTime, devVersion, call, entryVer, lastGet>>

VARIABLES
    cfg,            \* AccountConfig: access_token, refresh_token, expires_at
    saved,          \* the 'account' data of the config entry (AccountConfig.save)
    tokPc,          \* where _token_updater / _try_update_token stands
    tokenRetryDelay,\* token_retry_delay of _token_updater
    tokSignal,      \* token_signal.is_set()
    sleepFor,       \* the argument of the asyncio.sleep the updater is in
    expOf,          \* history: expires_at of every TokenInfo the cloud issued
    run,            \* history: the current or last run of _try_update_token
    rejected        \* history: refresh tokens the cloud rejected as invalid

tokenVars == <<cfg, saved, tokPc, tokenRetryDelay, tokSignal, sleepFor, expOf, run, rejected>>

VARIABLES
    sessPc,         \* where listen_devices stands
    devSignal,      \* device_signal.is_set()
    gatewayLog,     \* the gateway_status_changed events fired, in order
    retryDelay,     \* retry_delay of listen_devices
    cleanupCounter, \* cache_cleanup_counter of listen_devices
    cycles,         \* number of poll cycles the session of the model has run
    poll,           \* per device: where its _poll_device task of the cycle stands
    msg,            \* per device: the decoded value dict _parse_message holds
    events,         \* per device: device_data_changed events fired in the cycle
    snapshot,       \* per device: TreeowDevice._attribute_snapshot_data
    resp,           \* history: what the cloud answered the poll of the cycle
    schemaResp      \* history: what the cloud answered its schema fetch

VARIABLES
    procId,         \* process_id of the session of the model, 0 before it starts
    currentId,      \* hass.data['current_listen_devices_process_id'], 0 if none
    listening,      \* the control listener of the session is registered
    drainIdx,       \* the index in heartbeat_tasks the finally block stands at
    pollSleep,      \* the argument of the asyncio.sleep listen_devices is in
    loopFails       \* history: consecutive failures of the loop body

lifeVars == <<procId, currentId, listening, drainIdx, pollSleep, loopFails>>

VARIABLES
    hbPc,           \* per device: where its _send_heartbeat task stands
    hbSignal,       \* per device: heartbeat_signal.is_set()
    hbCancel,       \* per device: task.cancel() was called
    hbDelay,        \* per device: heartbeat_retry_delay
    hbWait,         \* per device: the argument of the asyncio.sleep it is in
    hbFails         \* history, per device: consecutive failed keep-alive writes

hbVars == <<hbPc, hbSignal, hbCancel, hbDelay, hbWait, hbFails>>

VARIABLES
    ctl             \* the control event being handled, or the last one handled

ctlVars == <<ctl>>

VARIABLES
    listPc,         \* where get_devices stands
    groupTask,      \* per group: where its _get_devices_for_group task stands
    listed,         \* the list get_devices returned
    broken          \* the devices whose async_init raises, the groups whose
                    \* listing request fails

listVars == <<listPc, groupTask, listed, broken>>

VARIABLES
    fnPc,           \* where the parser or entity method under study stands
    fnIn,           \* its arguments
    fnOut           \* what it has returned or built so far

libVars == <<fnPc, fnIn, fnOut>>

VARIABLES
    accessToken,    \* TreeowClient._access_token
    appVersion,     \* TreeowClient._app_version
    iosVersion,     \* TreeowClient._ios_version
    headerCache,    \* TreeowClient._header_cache
    versionsInitialized, \* TreeowClient._versions_initialized
    hdrPc,          \* per caller: where its _generate_common_headers call stands
    pending,        \* per caller: the version requests its gather still awaits
    returned,       \* per caller: the headers its last call returned
    hdrCalls        \* history, per caller: the calls it has made

hdrVars == <<accessToken, appVersion, iosVersion, headerCache, versionsInitialized,
             hdrPc, pending, returned, hdrCalls>>

VARIABLES
    pollInterval    \* entry.data['account']['poll_interval'] of the config entry

entryVars == <<pollInterval>>

VARIABLES
    newerListening, \* the control listener of a newer session is registered
    newerHb         \* per device: the heartbeat task of a newer session runs

newerVars == <<newerListening, newerHb>>

auxVars == <<libVars, hdrVars, entryVars, newerVars>>

extVars == <<lifeVars, hbVars, ctlVars, listVars, auxVars>>

sessRest == <<sessPc, gatewayLog, retryDelay, cleanupCounter, cycles,
              poll, msg, events, snapshot, resp, schemaResp, extVars>>

sessVars == <<devSignal, sessRest>>

(***************************************************************************)
(* get_digital_model: the list the schema endpoint returns for a device of *)
(* schema version v (the props of profile "PV(productId=.., version=v)").  *)
(***************************************************************************)
RemoteModel(v) == SubSeq(IdPool, 1, Min(v + 1, Len(IdPool)))

\* self._digital_model_cache_time.get(device_id, 0)
CacheTimeOf(d) == IF d \in DOMAIN dmCacheTime THEN dmCacheTime[d] ELSE 0

\* mutant: the entry is still served at age = TTL
CacheHitInclusive(d) ==
    /\ d \in DOMAIN dmCache
    /\ now - CacheTimeOf(d) <= CACHE_EXPIRATION

\* the test of get_digital_model_from_cache that returns the cached list
CacheHit(d) ==
    /\ d \in DOMAIN dmCache
    /\ now - CacheTimeOf(d) < CACHE_EXPIRATION

\* del d[key]
DictDel(f, d) == [x \in (DOMAIN f) \ {d} |-> f[x]]

\* mutant: a key that is present keeps its value (first writer wins)
DictSetFirst(f, d, v) ==
    [x \in (DOMAIN f) \cup {d} |-> IF x = d /\ d \notin DOMAIN f THEN v ELSE f[x]]

\* d[key] = value
DictSet(f, d, v) == [x \in (DOMAIN f) \cup {d} |-> IF x = d THEN v ELSE f[x]]

NoCall == [pc |-> "idle", dev |-> "d1", ver |-> 0, time |-> 0, age |-> -1,
           stale |-> FALSE, overl |-> FALSE]

NoGet == [dev |-> "d1", t |-> -1, fetches |-> 0, ok |-> FALSE, age |-> -1,
          stale |-> FALSE, overl |-> FALSE, ret |-> <<>>]

InFlight(d) == {c \in Callers : call[c].pc = "fetch" /\ call[c].dev = d}

\* history: the age of the entry a call finds, -1 when it finds none
AgeOf(d) == IF d \in DOMAIN dmCache THEN now - CacheTimeOf(d) ELSE -1

\* history: the call finds an entry fetched under another version than the
\* one its device object reports
StaleFor(d) == d \in DOMAIN dmCache /\ entryVer[d] # devVersion[d]

\* history: a call that starts while another one for the same device is in
\* flight overlaps it, and so does the one in flight
MarkOverlap(c, d) ==
    [x \in Callers |-> IF x # c /\ x \in InFlight(d)
                       THEN [call[x] EXCEPT !.overl = TRUE] ELSE call[x]]

(***************************************************************************)
(* get_digital_model_from_cache, cache valid: the cached list is returned  *)
(* with no await.                                                          *)
(***************************************************************************)
GetCached(c, d) ==
    /\ call[c].pc = "idle"
    /\ CacheHit(d)
    /\ lastGet' = [dev |-> d, t |-> now, fetches |-> 0, ok |-> TRUE, age |-> AgeOf(d),
                   stale |-> StaleFor(d), overl |-> InFlight(d) # {},
                   ret |-> dmCache[d]]
    /\ call' = MarkOverlap(c, d)
    /\ UNCHANGED <<tokenVars, sessVars, now, dmCache, dmCacheTime, devVersion, entryVer>>

(***************************************************************************)
(* get_digital_model_from_cache, no entry or entry expired: an expired     *)
(* entry is deleted from both maps, then get_digital_model is awaited.     *)
(***************************************************************************)
GetMiss(c, d) ==
    /\ call[c].pc = "idle"
    /\ ~CacheHit(d)
    /\ d \in DOMAIN dmCache => d \in DOMAIN dmCacheTime
    /\ dmCache' = DictDel(dmCache, d)
    /\ dmCacheTime' = IF d \in DOMAIN dmCache THEN DictDel(dmCacheTime, d) ELSE dmCacheTime
    /\ call' = [MarkOverlap(c, d) EXCEPT ![c] =
                    [pc |-> "fetch", dev |-> d, ver |-> devVersion[d], time |-> now,
                     age |-> AgeOf(d), stale |-> StaleFor(d),
                     overl |-> InFlight(d) # {}]]
    /\ UNCHANGED <<tokenVars, sessVars, now, devVersion, entryVer, lastGet>>

(***************************************************************************)
(* get_digital_model returned: both maps are written, the list is returned.*)
(* empty: the profile of the version is missing, the list is [].           *)
(***************************************************************************)
GetFetchOk(c, empty) ==
    /\ call[c].pc = "fetch"
    /\ LET d == call[c].dev
           attributes == IF empty THEN <<>> ELSE RemoteModel(call[c].ver)
       IN /\ dmCache' = DictSet(dmCache, d, attributes)
          /\ dmCacheTime' = DictSet(dmCacheTime, d, call[c].time)
          /\ entryVer' = [entryVer EXCEPT ![d] = call[c].ver]
          /\ lastGet' = [dev |-> d, t |-> call[c].time, fetches |-> 1, ok |-> TRUE,
                         age |-> call[c].age, stale |-> call[c].stale,
                         overl |-> call[c].overl, ret |-> attributes]
    /\ call' = [call EXCEPT ![c] = NoCall]
    /\ UNCHANGED <<tokenVars, sessVars, now, devVersion>>

(***************************************************************************)
(* get_digital_model raised: the exception leaves the call, nothing is     *)
(* stored.                                                                 *)
(***************************************************************************)
GetFetchFail(c) ==
    /\ call[c].pc = "fetch"
    /\ lastGet' = [dev |-> call[c].dev, t |-> call[c].time, fetches |-> 1, ok |-> FALSE,
                   age |-> call[c].age, stale |-> call[c].stale,
                   overl |-> call[c].overl, ret |-> <<>>]
    /\ call' = [call EXCEPT ![c] = NoCall]
    /\ UNCHANGED <<tokenVars, sessVars, now, dmCache, dmCacheTime, devVersion, entryVer>>

(***************************************************************************)
(* _cleanup_expired_cache: every entry whose age is >= the TTL is deleted  *)
(* from both maps.                                                         *)
(***************************************************************************)
\* mutant: an entry whose age is exactly the TTL is left in the cache
ExpiredDevicesStrict == {d \in DOMAIN dmCacheTime : now - dmCacheTime[d] > CACHE_EXPIRATION}

ExpiredDevices == {d \in DOMAIN dmCacheTime : now - dmCacheTime[d] >= CACHE_EXPIRATION}

\* the two maps after the deletions of _cleanup_expired_cache
CleanedCache == [x \in (DOMAIN dmCache) \ ExpiredDevices |-> dmCache[x]]

\* mutant: the sweep deletes from the value map only
CleanedCacheTimeKept == dmCacheTime

CleanedCacheTime == [x \in (DOMAIN dmCacheTime) \ ExpiredDevices |-> dmCacheTime[x]]

CleanupExpiredCache ==
    /\ ExpiredDevices \subseteq DOMAIN dmCache
    /\ dmCache' = CleanedCache
    /\ dmCacheTime' = CleanedCacheTime
    /\ UNCHANGED <<tokenVars, sessVars, now, devVersion, call, entryVer, lastGet>>

(***************************************************************************)
(* Environment: the cloud lists device d with another schema version (the  *)
(* device object of the next get_devices carries it); time passes.         *)
(***************************************************************************)
DeviceUpgrade(d, v) ==
    /\ v # devVersion[d]
    /\ devVersion' = [devVersion EXCEPT ![d] = v]
    /\ UNCHANGED <<tokenVars, sessVars, now, dmCache, dmCacheTime, call, entryVer, lastGet>>

Elapse(dt, horizon) ==
    /\ now + dt <= horizon
    /\ now' = now + dt

ElapseCache ==
    /\ \E dt \in CacheSteps : Elapse(dt, MaxNow)
    /\ UNCHANGED <<tokenVars, sessVars, dmCache, dmCacheTime, devVersion, call, entryVer, lastGet>>

(***************************************************************************)
(* The token manager.  A TokenInfo is identified by the number of the      *)
(* response that issued it: its access token and its refresh token carry   *)
(* that number, expOf remembers its expires_at.                            *)
(***************************************************************************)
TokenInfo(n, exp) == [access_token |-> n, refresh_token |-> n, expires_at |-> exp]

NoRun == [by |-> "none", verify |-> "none", remaining |-> 0, logins |-> 0,
          refreshes |-> 0, saves |-> 0, result |-> "none",
          start |-> TokenInfo(0, 0), startSaved |-> TokenInfo(0, 0)]

NewRun(by) == [by |-> by, verify |-> "none", remaining |-> 0, logins |-> 0,
               refreshes |-> 0, saves |-> 0, result |-> "running",
               start |-> cfg, startSaved |-> saved]

\* mutant: expires_at of the returned TokenInfo is not taken over
StoreTokenInfoKeepExpiry(info) ==
    /\ cfg' = [access_token |-> info.access_token,
               refresh_token |-> info.refresh_token,
               expires_at |-> cfg.expires_at]
    /\ saved' = cfg'

\* account_cfg.access_token = ..; .refresh_token = ..; .expires_at = ..;
\* account_cfg.save()
StoreTokenInfo(info) ==
    /\ cfg' = [access_token |-> info.access_token,
               refresh_token |-> info.refresh_token,
               expires_at |-> info.expires_at]
    /\ saved' = cfg'

\* what follows a run of _try_update_token that returned or raised: in
\* async_setup_entry the result is dropped and the updater task is started,
\* an exception fails the set-up; in _token_updater True reloads the
\* integration, False sleeps the check interval, an exception sleeps the
\* retry delay
AfterRun(by, result) ==
    IF by = "setup"
    THEN /\ tokPc' = IF result = "raised" THEN "failed" ELSE "loop"
         /\ tokenRetryDelay' = TOKEN_RETRY_DELAY
         /\ tokSignal' = FALSE
         /\ sleepFor' = 0
    ELSE /\ tokPc' = CASE result = "Refreshed" -> "reload"
                       [] result = "Unchanged" -> "check_sleep"
                       [] OTHER -> "retry_sleep"
         /\ tokenRetryDelay' = IF result = "Unchanged" THEN TOKEN_RETRY_DELAY
                               ELSE tokenRetryDelay
         /\ sleepFor' = CASE result = "Refreshed" -> 0
                          [] result = "Unchanged" -> TOKEN_CHECK_INTERVAL
                          [] OTHER -> tokenRetryDelay
         /\ UNCHANGED tokSignal

(***************************************************************************)
(* async_setup_entry: the account configuration is read from the entry and *)
(* _try_update_token is awaited once before the updater task exists.       *)
(***************************************************************************)
SetupEntry ==
    /\ tokPc \in {"done", "stopped", "failed"}
    /\ cfg' = saved
    /\ tokPc' = "verify"
    /\ run' = [NewRun("setup") EXCEPT !.start = saved]
    /\ UNCHANGED <<saved, tokenRetryDelay, tokSignal, sleepFor, expOf, rejected>>
    /\ UNCHANGED <<cacheVars, sessVars, now>>

(***************************************************************************)
(* _token_updater, the head of the loop: while not signal.is_set()         *)
(***************************************************************************)
TokLoopEnter ==
    /\ tokPc = "loop"
    /\ ~tokSignal
    /\ tokPc' = "verify"
    /\ run' = NewRun("updater")
    /\ UNCHANGED <<cfg, saved, tokenRetryDelay, tokSignal, sleepFor, expOf, rejected>>
    /\ UNCHANGED <<cacheVars, sessVars, now>>

TokLoopExit ==
    /\ tokPc = "loop"
    /\ tokSignal
    /\ tokPc' = "stopped"
    /\ UNCHANGED <<cfg, saved, tokenRetryDelay, tokSignal, sleepFor, expOf, run, rejected>>
    /\ UNCHANGED <<cacheVars, sessVars, now>>

\* if time_until_expiry > TOKEN_REFRESH_THRESHOLD: return False
NeedsNoRefresh(remaining) == remaining > TOKEN_REFRESH_THRESHOLD

(***************************************************************************)
(* _try_update_token, verify_token returned: the remaining life of the     *)
(* token decides between returning False and awaiting refresh_token.       *)
(***************************************************************************)
VerifyOk ==
    /\ tokPc = "verify"
    /\ LET remaining == cfg.expires_at - now
       IN IF NeedsNoRefresh(remaining)
          THEN /\ run' = [run EXCEPT !.verify = "ok", !.remaining = remaining,
                                     !.result = "Unchanged"]
               /\ AfterRun(run.by, "Unchanged")
          ELSE /\ run' = [run EXCEPT !.verify = "ok", !.remaining = remaining,
                                     !.refreshes = @ + 1]
               /\ tokPc' = "refresh"
               /\ UNCHANGED <<tokenRetryDelay, tokSignal, sleepFor>>
    /\ UNCHANGED <<cfg, saved, expOf, rejected>>
    /\ UNCHANGED <<cacheVars, sessVars, now>>

(***************************************************************************)
(* _try_update_token, verify_token raised.  verify_token turns a rejecting *)
(* envelope ("invalid") and any other exception, a timeout or a connection *)
(* error ("neterr"), into TreeowClientException; the handler awaits login. *)
(***************************************************************************)
VerifyFail(kind) ==
    /\ tokPc = "verify"
    /\ run' = [run EXCEPT !.verify = kind, !.logins = @ + 1]
    /\ tokPc' = "login"
    /\ UNCHANGED <<cfg, saved, tokenRetryDelay, tokSignal, sleepFor, expOf, rejected>>
    /\ UNCHANGED <<cacheVars, sessVars, now>>

(***************************************************************************)
(* login or refresh_token returned a TokenInfo: it is stored and saved,    *)
(* _try_update_token returns True.                                         *)
(***************************************************************************)
LoginOk(expiresIn) ==
    /\ tokPc = "login"
    /\ Len(expOf) < MaxIssued
    /\ expOf' = Append(expOf, now + expiresIn)
    /\ StoreTokenInfo(TokenInfo(Len(expOf) + 1, now + expiresIn))
    /\ run' = [run EXCEPT !.saves = @ + 1, !.result = "Refreshed"]
    /\ AfterRun(run.by, "Refreshed")
    /\ UNCHANGED rejected
    /\ UNCHANGED <<cacheVars, sessVars, now>>

RefreshOk(expiresIn) ==
    /\ tokPc = "refresh"
    /\ Len(expOf) < MaxIssued
    /\ expOf' = Append(expOf, now + expiresIn)
    /\ StoreTokenInfo(TokenInfo(Len(expOf) + 1, now + expiresIn))
    /\ run' = [run EXCEPT !.saves = @ + 1, !.result = "Refreshed"]
    /\ AfterRun(run.by, "Refreshed")
    /\ UNCHANGED rejected
    /\ UNCHANGED <<cacheVars, sessVars, now>>

(***************************************************************************)
(* login or refresh_token raised ("rejected": the cloud refuses the        *)
(* credentials or the refresh token; "neterr": the request failed): the    *)
(* exception leaves _try_update_token.                                     *)
(***************************************************************************)
LoginFail(kind) ==
    /\ tokPc = "login"
    /\ run' = [run EXCEPT !.result = "raised"]
    /\ AfterRun(run.by, "raised")
    /\ UNCHANGED <<cfg, saved, expOf, rejected>>
    /\ UNCHANGED <<cacheVars, sessVars, now>>

RefreshFail(kind) ==
    /\ tokPc = "refresh"
    /\ run' = [run EXCEPT !.result = "raised"]
    /\ rejected' = IF kind = "rejected" THEN rejected \cup {cfg.refresh_token}
                   ELSE rejected
    /\ AfterRun(run.by, "raised")
    /\ UNCHANGED <<cfg, saved, expOf>>
    /\ UNCHANGED <<cacheVars, sessVars, now>>

(***************************************************************************)
(* _token_updater: the sleep after an exception ends, the delay doubles up *)
(* to the cap; the sleep of the check interval ends.                       *)
(***************************************************************************)
\* mutant: the retry delay of the updater doubles without a cap
RetrySleepDoneUncapped ==
    /\ tokPc = "retry_sleep"
    /\ tokenRetryDelay' = tokenRetryDelay * TOKEN_RETRY_MULTIPLIER
    /\ tokPc' = "loop"
    /\ sleepFor' = 0
    /\ UNCHANGED <<cfg, saved, tokSignal, expOf, run, rejected>>
    /\ UNCHANGED <<cacheVars, sessVars, now>>

RetrySleepDone ==
    /\ tokPc = "retry_sleep"
    /\ tokenRetryDelay' = Min(tokenRetryDelay * TOKEN_RETRY_MULTIPLIER, TOKEN_MAX_RETRY_DELAY)
    /\ tokPc' = "loop"
    /\ sleepFor' = 0
    /\ UNCHANGED <<cfg, saved, tokSignal, expOf, run, rejected>>
    /\ UNCHANGED <<cacheVars, sessVars, now>>

CheckSleepDone ==
    /\ tokPc = "check_sleep"
    /\ tokPc' = "loop"
    /\ sleepFor' = 0
    /\ UNCHANGED <<cfg, saved, tokenRetryDelay, tokSignal, expOf, run, rejected>>
    /\ UNCHANGED <<cacheVars, sessVars, now>>

(***************************************************************************)
(* _token_updater after True: async_reload is awaited (async_unload_entry  *)
(* sets every signal), then break.                                         *)
(***************************************************************************)
TokReload ==
    /\ tokPc = "reload"
    /\ tokSignal' = TRUE
    /\ devSignal' = TRUE
    /\ tokPc' = "done"
    /\ UNCHANGED <<cfg, saved, tokenRetryDelay, sleepFor, expOf, run, rejected>>
    /\ UNCHANGED <<cacheVars, sessRest, now>>

(***************************************************************************)
(* async_unload_entry: for signal in signals: signal.set()                 *)
(***************************************************************************)
UnloadEntry ==
    /\ ~tokSignal \/ ~devSignal
    /\ tokSignal' = TRUE
    /\ devSignal' = TRUE
    /\ UNCHANGED <<cfg, saved, tokPc, tokenRetryDelay, sleepFor, expOf, run, rejected>>
    /\ UNCHANGED <<cacheVars, sessRest, now>>

(***************************************************************************)
(* The listening session: TreeowClient.listen_devices.                     *)
(***************************************************************************)
Range(f) == {f[i] : i \in DOMAIN f}

\* mutant: every key of the payload is published, in the schema or not
ValuesOfAll(attributes, data) == data

\* values = {}; for attribute in attributes: identifier = ..; if identifier
\* and identifier in data: values[identifier] = data[identifier]
ValuesOf(attributes, data) ==
    [k \in Range(attributes) \cap DOMAIN data |-> data[k]]

\* fire_event(EVENT_DEVICE_DATA_CHANGED, {'deviceId': msg['id'], 'attributes': values})
DataChanged(d, values) == [deviceId |-> d, attributes |-> values]

NoMsg == <<>>

\* a gateway_status_changed event: the session that fired it, its status
GatewayStatus(id, status) == [by |-> id, status |-> status]

\* mutant: the starting session does not record its process id
RecordProcessNot(id) == currentId

\* self._hass.data['current_listen_devices_process_id'] = process_id
RecordProcess(id) == id

(***************************************************************************)
(* listen_devices up to its loop, one stretch without an await: a fresh    *)
(* process id is recorded as the current one, one heartbeat task per       *)
(* device is created, the control listener is registered,                  *)
(* gateway_status_changed(True) is fired.                                  *)
(***************************************************************************)
SessStart ==
    /\ sessPc = "off"
    /\ ~devSignal
    /\ currentId < MaxSessions
    /\ procId' = currentId + 1
    /\ currentId' = RecordProcess(currentId + 1)
    /\ hbPc' = [d \in Devices |-> "put"]
    /\ hbSignal' = [d \in Devices |-> FALSE]
    /\ hbCancel' = [d \in Devices |-> FALSE]
    /\ hbDelay' = [d \in Devices |-> HEARTBEAT_RETRY_DELAY]
    /\ hbWait' = [d \in Devices |-> 0]
    /\ hbFails' = [d \in Devices |-> 0]
    /\ listening' = TRUE
    /\ sessPc' = "loop"
    /\ gatewayLog' = Append(gatewayLog, GatewayStatus(currentId + 1, TRUE))
    /\ retryDelay' = RETRY_DELAY
    /\ cleanupCounter' = 0
    /\ UNCHANGED <<devSignal, cycles, poll, msg, events, snapshot, resp, schemaResp>>
    /\ UNCHANGED <<drainIdx, pollSleep, loopFails, ctlVars, listVars, auxVars>>
    /\ UNCHANGED <<cacheVars, tokenVars, now>>

(***************************************************************************)
(* Another listen_devices starts after the entry was unloaded (a reload):  *)
(* it records its own fresh process id, creates its heartbeat tasks,       *)
(* registers its control listener and fires gateway_status_changed(True).  *)
(***************************************************************************)
NewerSessionStart ==
    /\ procId # 0
    /\ devSignal
    /\ currentId < MaxSessions
    /\ currentId' = currentId + 1
    /\ newerHb' = [d \in Devices |-> TRUE]
    /\ newerListening' = TRUE
    /\ gatewayLog' = Append(gatewayLog, GatewayStatus(currentId + 1, TRUE))
    /\ UNCHANGED <<procId, listening, drainIdx, pollSleep, loopFails>>
    /\ UNCHANGED <<devSignal, sessPc, retryDelay, cleanupCounter, cycles,
                   poll, msg, events, snapshot, resp, schemaResp>>
    /\ UNCHANGED <<hbVars, ctlVars, listVars, libVars, hdrVars, entryVars>>
    /\ UNCHANGED <<cacheVars, tokenVars, now>>

(***************************************************************************)
(* while not signal.is_set(): the headers are generated and one            *)
(* _poll_device per device is handed to asyncio.gather.                    *)
(***************************************************************************)
CycleStart ==
    /\ sessPc = "loop"
    /\ ~devSignal
    /\ sessPc' = "poll"
    /\ poll' = [d \in Devices |-> "fetch"]
    /\ msg' = [d \in Devices |-> NoMsg]
    /\ events' = [d \in Devices |-> <<>>]
    /\ resp' = [d \in Devices |-> "none"]
    /\ schemaResp' = [d \in Devices |-> "none"]
    /\ UNCHANGED <<devSignal, gatewayLog, retryDelay, cleanupCounter, cycles, snapshot>>
    /\ UNCHANGED <<cacheVars, tokenVars, now, extVars>>

(***************************************************************************)
(* _poll_device, the snapshot request returned data with props that        *)
(* decode to the value dict p: _parse_message asks the cache for the       *)
(* schema.  A valid entry is used at once and the event is fired; else an  *)
(* expired entry is deleted and get_digital_model is awaited.              *)
(***************************************************************************)
PollFetchOk(d, p) ==
    /\ sessPc = "poll"
    /\ poll[d] = "fetch"
    /\ resp' = [resp EXCEPT ![d] = "ok"]
    /\ msg' = [msg EXCEPT ![d] = [data |-> p, time |-> now]]
    /\ IF CacheHit(d)
       THEN /\ events' = [events EXCEPT ![d] =
                            Append(@, DataChanged(d, ValuesOf(dmCache[d], p)))]
            /\ poll' = [poll EXCEPT ![d] = "done"]
            /\ UNCHANGED <<dmCache, dmCacheTime>>
       ELSE /\ d \in DOMAIN dmCache => d \in DOMAIN dmCacheTime
            /\ dmCache' = DictDel(dmCache, d)
            /\ dmCacheTime' = IF d \in DOMAIN dmCache THEN DictDel(dmCacheTime, d)
                              ELSE dmCacheTime
            /\ poll' = [poll EXCEPT ![d] = "schema"]
            /\ UNCHANGED events
    /\ UNCHANGED <<devSignal, sessPc, gatewayLog, retryDelay, cleanupCounter, cycles,
                   snapshot, schemaResp>>
    /\ UNCHANGED <<devVersion, call, entryVer, lastGet, tokenVars, now, extVars>>

(***************************************************************************)
(* _poll_device, the request returned a successful envelope without data,  *)
(* or with data without props: nothing is fired.                           *)
(***************************************************************************)
PollFetchEmpty(d) ==
    /\ sessPc = "poll"
    /\ poll[d] = "fetch"
    /\ resp' = [resp EXCEPT ![d] = "empty"]
    /\ poll' = [poll EXCEPT ![d] = "done"]
    /\ UNCHANGED <<devSignal, sessPc, gatewayLog, retryDelay, cleanupCounter, cycles,
                   msg, events, snapshot, schemaResp>>
    /\ UNCHANGED <<cacheVars, tokenVars, now, extVars>>

\* mutant: the exception of a poll leaves the loop and ends the session
PollFailEndsSession(d, kind) ==
    /\ sessPc = "poll"
    /\ poll[d] = "fetch"
    /\ resp' = [resp EXCEPT ![d] = kind]
    /\ poll' = [poll EXCEPT ![d] = "done"]
    /\ sessPc' = "stopped"
    /\ gatewayLog' = Append(gatewayLog, [by |-> procId, status |-> FALSE])
    /\ UNCHANGED <<devSignal, retryDelay, cleanupCounter, cycles,
                   msg, events, snapshot, schemaResp>>
    /\ UNCHANGED <<cacheVars, tokenVars, now, extVars>>

\* mutant: the exception of one poll ends the polls of the whole cycle
PollFailAborts(d, kind) ==
    /\ sessPc = "poll"
    /\ poll[d] = "fetch"
    /\ resp' = [resp EXCEPT ![d] = kind]
    /\ poll' = [x \in Devices |-> "done"]
    /\ UNCHANGED <<devSignal, sessPc, gatewayLog, retryDelay, cleanupCounter, cycles,
                   msg, events, snapshot, schemaResp>>
    /\ UNCHANGED <<cacheVars, tokenVars, now, extVars>>

(***************************************************************************)
(* _poll_device, the request raised or its envelope is rejected ("fail"),  *)
(* or the props do not decode ("undecodable"): the exception is logged     *)
(* inside the task of that device.                                         *)
(***************************************************************************)
PollFail(d, kind) ==
    /\ sessPc = "poll"
    /\ poll[d] = "fetch"
    /\ resp' = [resp EXCEPT ![d] = kind]
    /\ poll' = [poll EXCEPT ![d] = "done"]
    /\ UNCHANGED <<devSignal, sessPc, gatewayLog, retryDelay, cleanupCounter, cycles,
                   msg, events, snapshot, schemaResp>>
    /\ UNCHANGED <<cacheVars, tokenVars, now, extVars>>

(***************************************************************************)
(* _parse_message, get_digital_model returned: the cache is written and    *)
(* the event is fired.                                                     *)
(***************************************************************************)
PollSchemaOk(d, empty) ==
    /\ sessPc = "poll"
    /\ poll[d] = "schema"
    /\ LET attributes == IF empty THEN <<>> ELSE RemoteModel(devVersion[d])
       IN /\ dmCache' = DictSet(dmCache, d, attributes)
          /\ dmCacheTime' = DictSet(dmCacheTime, d, msg[d].time)
          /\ entryVer' = [entryVer EXCEPT ![d] = devVersion[d]]
          /\ events' = [events EXCEPT ![d] =
                          Append(@, DataChanged(d, ValuesOf(attributes, msg[d].data)))]
    /\ schemaResp' = [schemaResp EXCEPT ![d] = "ok"]
    /\ poll' = [poll EXCEPT ![d] = "done"]
    /\ UNCHANGED <<devSignal, sessPc, gatewayLog, retryDelay, cleanupCounter, cycles,
                   msg, snapshot, resp>>
    /\ UNCHANGED <<devVersion, call, lastGet, tokenVars, now, extVars>>

(***************************************************************************)
(* _parse_message, get_digital_model raised: logged, nothing is fired.     *)
(***************************************************************************)
PollSchemaFail(d) ==
    /\ sessPc = "poll"
    /\ poll[d] = "schema"
    /\ schemaResp' = [schemaResp EXCEPT ![d] = "fail"]
    /\ poll' = [poll EXCEPT ![d] = "done"]
    /\ UNCHANGED <<devSignal, sessPc, gatewayLog, retryDelay, cleanupCounter, cycles,
                   msg, events, snapshot, resp>>
    /\ UNCHANGED <<cacheVars, tokenVars, now, extVars>>

(***************************************************************************)
(* asyncio.gather returned: every poll of the cycle has ended; the loop    *)
(* awaits asyncio.sleep(DEVICE_POLL_INTERVAL).                             *)
(***************************************************************************)
CycleEnd ==
    /\ sessPc = "poll"
    /\ \A d \in Devices : poll[d] = "done"
    /\ sessPc' = "sleep"
    /\ pollSleep' = DEVICE_POLL_INTERVAL
    /\ UNCHANGED <<devSignal, gatewayLog, retryDelay, cleanupCounter, cycles,
                   poll, msg, events, snapshot, resp, schemaResp>>
    /\ UNCHANGED <<procId, currentId, listening, drainIdx, loopFails>>
    /\ UNCHANGED <<hbVars, ctlVars, listVars, auxVars, cacheVars, tokenVars, now>>

(***************************************************************************)
(* The sleep ended: the cleanup counter advances and the cache is swept    *)
(* when it reaches 60; retry_delay is reset.                               *)
(***************************************************************************)
SleepDone ==
    /\ sessPc = "sleep"
    /\ sessPc' = "loop"
    /\ pollSleep' = 0
    /\ loopFails' = 0
    /\ cycles' = Min(cycles + 1, MaxCycles)
    /\ IF cleanupCounter + 1 >= CLEANUP_EVERY
       THEN /\ ExpiredDevices \subseteq DOMAIN dmCache
            /\ dmCache' = CleanedCache
            /\ dmCacheTime' = CleanedCacheTime
            /\ cleanupCounter' = 0
       ELSE /\ cleanupCounter' = cleanupCounter + 1
            /\ UNCHANGED <<dmCache, dmCacheTime>>
    /\ retryDelay' = RETRY_DELAY
    /\ UNCHANGED <<devSignal, gatewayLog, poll, msg, events, snapshot, resp, schemaResp>>
    /\ UNCHANGED <<procId, currentId, listening, drainIdx>>
    /\ UNCHANGED <<hbVars, ctlVars, listVars, auxVars>>
    /\ UNCHANGED <<devVersion, call, entryVer, lastGet, tokenVars, now>>

(***************************************************************************)
(* A statement of the loop body raises an Exception (the polls never do:   *)
(* _poll_device catches its own): the handler awaits                       *)
(* asyncio.sleep(retry_delay).                                             *)
(***************************************************************************)
LoopRaise ==
    /\ sessPc = "loop"
    /\ ~devSignal
    /\ sessPc' = "backoff"
    /\ pollSleep' = retryDelay
    /\ loopFails' = Min(loopFails + 1, MaxFails)
    /\ UNCHANGED <<devSignal, gatewayLog, retryDelay, cleanupCounter, cycles,
                   poll, msg, events, snapshot, resp, schemaResp>>
    /\ UNCHANGED <<procId, currentId, listening, drainIdx>>
    /\ UNCHANGED <<hbVars, ctlVars, listVars, auxVars, cacheVars, tokenVars, now>>

\* mutant: the delay of the poll loop is capped like that of the heartbeat
NextRetryDelayHeartbeatCap(delay) == Min(delay * RETRY_MULTIPLIER, HEARTBEAT_INTERVAL)

\* retry_delay = min(retry_delay * RETRY_MULTIPLIER, MAX_RETRY_DELAY)
NextRetryDelay(delay) == Min(delay * RETRY_MULTIPLIER, MAX_RETRY_DELAY)

(***************************************************************************)
(* The sleep of the handler ended: retry_delay doubles up to its cap and   *)
(* the loop goes on.                                                       *)
(***************************************************************************)
BackoffDone ==
    /\ sessPc = "backoff"
    /\ sessPc' = "loop"
    /\ retryDelay' = NextRetryDelay(retryDelay)
    /\ pollSleep' = 0
    /\ UNCHANGED <<devSignal, gatewayLog, cleanupCounter, cycles,
                   poll, msg, events, snapshot, resp, schemaResp>>
    /\ UNCHANGED <<procId, currentId, listening, drainIdx, loopFails>>
    /\ UNCHANGED <<hbVars, ctlVars, listVars, auxVars, cacheVars, tokenVars, now>>

\* heartbeat_signal.set(); task.cancel() for the i-th heartbeat task
StopHeartbeat(i) ==
    /\ hbSignal' = [hbSignal EXCEPT ![DeviceSeq[i]] = TRUE]
    /\ hbCancel' = [hbCancel EXCEPT ![DeviceSeq[i]] = TRUE]

(***************************************************************************)
(* The loop finds the signal set; finally: the control listener is         *)
(* cancelled, the first heartbeat task is signalled and cancelled, and the *)
(* block awaits that task.                                                 *)
(***************************************************************************)
SessDrain ==
    /\ sessPc = "loop"
    /\ devSignal
    /\ sessPc' = "draining"
    /\ listening' = FALSE
    /\ drainIdx' = 1
    /\ StopHeartbeat(1)
    /\ UNCHANGED <<devSignal, gatewayLog, retryDelay, cleanupCounter, cycles,
                   poll, msg, events, snapshot, resp, schemaResp>>
    /\ UNCHANGED <<procId, currentId, pollSleep, loopFails>>
    /\ UNCHANGED <<hbPc, hbDelay, hbWait, hbFails>>
    /\ UNCHANGED <<ctlVars, listVars, auxVars, cacheVars, tokenVars, now>>

(***************************************************************************)
(* finally: the awaited heartbeat task has ended (CancelledError is        *)
(* passed over); the next task is signalled, cancelled and awaited.        *)
(***************************************************************************)
DrainNext ==
    /\ sessPc = "draining"
    /\ hbPc[DeviceSeq[drainIdx]] = "ended"
    /\ drainIdx < Len(DeviceSeq)
    /\ drainIdx' = drainIdx + 1
    /\ StopHeartbeat(drainIdx + 1)
    /\ UNCHANGED <<devSignal, sessPc, gatewayLog, retryDelay, cleanupCounter, cycles,
                   poll, msg, events, snapshot, resp, schemaResp>>
    /\ UNCHANGED <<procId, currentId, listening, pollSleep, loopFails>>
    /\ UNCHANGED <<hbPc, hbDelay, hbWait, hbFails>>
    /\ UNCHANGED <<ctlVars, listVars, auxVars, cacheVars, tokenVars, now>>

\* mutant: gateway_status_changed(False) is fired whoever the current
\* session is
IsCurrentProcessAlways(id) == TRUE

\* if process_id == current_process
IsCurrentProcess(id) == id = currentId

(***************************************************************************)
(* finally: the last heartbeat task has ended;                             *)
(* gateway_status_changed(False) is fired if the process id of the session *)
(* is still the recorded one, and listen_devices returns.                  *)
(***************************************************************************)
SessStop ==
    /\ sessPc = "draining"
    /\ drainIdx = Len(DeviceSeq)
    /\ hbPc[DeviceSeq[drainIdx]] = "ended"
    /\ sessPc' = "stopped"
    /\ gatewayLog' = IF IsCurrentProcess(procId)
                     THEN Append(gatewayLog, GatewayStatus(procId, FALSE))
                     ELSE gatewayLog
    /\ UNCHANGED <<devSignal, retryDelay, cleanupCounter, cycles,
                   poll, msg, events, snapshot, resp, schemaResp>>
    /\ UNCHANGED <<lifeVars, hbVars, ctlVars, listVars, auxVars, cacheVars, tokenVars, now>>

(***************************************************************************)
(* The heartbeat task of a device: TreeowClient._send_heartbeat.  The task *)
(* is suspended in its PUT or in one of its two sleeps whenever another    *)
(* task runs, so a cancelled task ends at that await and the test of its   *)
(* own event never finds the event set.                                    *)
(***************************************************************************)
HbLive(d) == hbPc[d] \in {"put", "sleep", "retry_sleep"}

\* mutant: the delay of the heartbeat doubles without a cap
NextHeartbeatDelayUncapped(delay) == delay * HEARTBEAT_RETRY_MULTIPLIER

\* heartbeat_retry_delay = min(heartbeat_retry_delay * 2, HEARTBEAT_INTERVAL)
NextHeartbeatDelay(delay) == Min(delay * HEARTBEAT_RETRY_MULTIPLIER, HEARTBEAT_INTERVAL)

(***************************************************************************)
(* The keep-alive PUT returned a successful envelope: the delay is reset   *)
(* and the task awaits asyncio.sleep(HEARTBEAT_INTERVAL).                  *)
(***************************************************************************)
HbOk(d) ==
    /\ hbPc[d] = "put"
    /\ ~hbCancel[d]
    /\ hbDelay' = [hbDelay EXCEPT ![d] = HEARTBEAT_RETRY_DELAY]
    /\ hbFails' = [hbFails EXCEPT ![d] = 0]
    /\ hbWait' = [hbWait EXCEPT ![d] = HEARTBEAT_INTERVAL]
    /\ hbPc' = [hbPc EXCEPT ![d] = "sleep"]
    /\ UNCHANGED <<hbSignal, hbCancel>>
    /\ UNCHANGED <<lifeVars, ctlVars, listVars, auxVars, cacheVars, tokenVars, now>>
    /\ UNCHANGED <<devSignal, sessPc, gatewayLog, retryDelay, cleanupCounter, cycles,
                   poll, msg, events, snapshot, resp, schemaResp>>

(***************************************************************************)
(* The keep-alive PUT raised or its envelope is rejected: the task awaits  *)
(* asyncio.sleep(heartbeat_retry_delay).                                   *)
(***************************************************************************)
HbFail(d) ==
    /\ hbPc[d] = "put"
    /\ ~hbCancel[d]
    /\ hbFails' = [hbFails EXCEPT ![d] = Min(@ + 1, MaxFails)]
    /\ hbWait' = [hbWait EXCEPT ![d] = hbDelay[d]]
    /\ hbPc' = [hbPc EXCEPT ![d] = "retry_sleep"]
    /\ UNCHANGED <<hbSignal, hbCancel, hbDelay>>
    /\ UNCHANGED <<lifeVars, ctlVars, listVars, auxVars, cacheVars, tokenVars, now>>
    /\ UNCHANGED <<devSignal, sessPc, gatewayLog, retryDelay, cleanupCounter, cycles,
                   poll, msg, events, snapshot, resp, schemaResp>>

(***************************************************************************)
(* The sleep of the interval ended: the next keep-alive PUT is sent.       *)
(***************************************************************************)
HbSleepDone(d) ==
    /\ hbPc[d] = "sleep"
    /\ ~hbCancel[d]
    /\ hbWait' = [hbWait EXCEPT ![d] = 0]
    /\ hbPc' = [hbPc EXCEPT ![d] = "put"]
    /\ UNCHANGED <<hbSignal, hbCancel, hbDelay, hbFails>>
    /\ UNCHANGED <<lifeVars, ctlVars, listVars, auxVars, cacheVars, tokenVars, now>>
    /\ UNCHANGED <<devSignal, sessPc, gatewayLog, retryDelay, cleanupCounter, cycles,
                   poll, msg, events, snapshot, resp, schemaResp>>

(***************************************************************************)
(* The sleep after a failure ended: the delay doubles up to the heartbeat  *)
(* interval and the PUT is sent again.                                     *)
(***************************************************************************)
HbRetrySleepDone(d) ==
    /\ hbPc[d] = "retry_sleep"
    /\ ~hbCancel[d]
    /\ hbDelay' = [hbDelay EXCEPT ![d] = NextHeartbeatDelay(@)]
    /\ hbWait' = [hbWait EXCEPT ![d] = 0]
    /\ hbPc' = [hbPc EXCEPT ![d] = "put"]
    /\ UNCHANGED <<hbSignal, hbCancel, hbFails>>
    /\ UNCHANGED <<lifeVars, ctlVars, listVars, auxVars, cacheVars, tokenVars, now>>
    /\ UNCHANGED <<devSignal, sessPc, gatewayLog, retryDelay, cleanupCounter, cycles,
                   poll, msg, events, snapshot, resp, schemaResp>>

\* mutant: the task catches the CancelledError and goes on
HbCancelledSwallowed(d) ==
    /\ HbLive(d)
    /\ hbCancel[d]
    /\ hbCancel' = [hbCancel EXCEPT ![d] = FALSE]
    /\ UNCHANGED <<hbPc, hbSignal, hbDelay, hbWait, hbFails>>
    /\ UNCHANGED <<lifeVars, ctlVars, listVars, auxVars, cacheVars, tokenVars, now>>
    /\ UNCHANGED <<devSignal, sessPc, gatewayLog, retryDelay, cleanupCounter, cycles,
                   poll, msg, events, snapshot, resp, schemaResp>>

(***************************************************************************)
(* The cancelled task is resumed with CancelledError, which its            *)
(* `except Exception` does not catch: the task ends.                       *)
(***************************************************************************)
HbCancelled(d) ==
    /\ HbLive(d)
    /\ hbCancel[d]
    /\ hbPc' = [hbPc EXCEPT ![d] = "ended"]
    /\ UNCHANGED <<hbSignal, hbCancel, hbDelay, hbWait, hbFails>>
    /\ UNCHANGED <<lifeVars, ctlVars, listVars, auxVars, cacheVars, tokenVars, now>>
    /\ UNCHANGED <<devSignal, sessPc, gatewayLog, retryDelay, cleanupCounter, cycles,
                   poll, msg, events, snapshot, resp, schemaResp>>

(***************************************************************************)
(* The control consumer: control_callback of listen_devices and            *)
(* TreeowClient._send_command.  One control event is handled at a time in  *)
(* the model; ctl keeps the event and what became of it.                   *)
(***************************************************************************)
\* the values a command writes and a read-back returns
CtlValues == {0, 1}

\* the meta of the read-back envelope: with a message, or without one
CtlMetas == { [message |-> "busy"], <<>> }

NoCtl == [n |-> 0, pc |-> "idle", dev |-> "d1", key |-> "none", value |-> 0,
          puts |-> 0, gets |-> 0, result |-> "none", message |-> "none",
          readback |-> 0, meta |-> <<>>, polls |-> 0, prev |-> "none"]

\* identifier = next(iter(command.keys())); value = command[identifier]
NewCtl(d, k, v) == [n |-> ctl.n + 1, pc |-> "put", dev |-> d, key |-> k, value |-> v,
                    puts |-> 0, gets |-> 0, result |-> "none", message |-> "none",
                    readback |-> 0, meta |-> <<>>, polls |-> 0, prev |-> ctl.result]

\* content.get('meta', {}).get('message', 'Unknown error')
MessageOf(meta) == IF "message" \in DOMAIN meta THEN meta.message ELSE "Unknown error"

\* mutant: the read-back is not compared
ReadBackDiffersNever(data, value) == FALSE

\* if content.get('data') != value
ReadBackDiffers(data, value) == data # value

\* mutant: the exception of a command leaves control_callback and the
\* listener is lost
CallbackPropagates(c) ==
    /\ ctl' = c
    /\ listening' = FALSE

\* control_callback: try: await self._send_command(..) except Exception:
\* the error is logged and the callback returns
CallbackCaught(c) ==
    /\ ctl' = c
    /\ listening' = listening

(***************************************************************************)
(* A control event reaches the registered listener: control_callback       *)
(* calls _send_command, which sends the PUT of the first key of the        *)
(* command.                                                                *)
(***************************************************************************)
CtlRequest(d, k, v) ==
    /\ listening
    /\ ctl.pc \in {"idle", "done"}
    /\ ctl.n < MaxCommands
    /\ ctl' = [NewCtl(d, k, v) EXCEPT !.puts = 1]
    /\ UNCHANGED <<lifeVars, hbVars, listVars, auxVars, cacheVars, tokenVars, now>>
    /\ UNCHANGED <<devSignal, sessPc, gatewayLog, retryDelay, cleanupCounter, cycles,
                   poll, msg, events, snapshot, resp, schemaResp>>

(***************************************************************************)
(* A control event with an empty command: _send_command returns at once.   *)
(***************************************************************************)
CtlRequestEmpty(d) ==
    /\ listening
    /\ ctl.pc \in {"idle", "done"}
    /\ ctl.n < MaxCommands
    /\ ctl' = [NewCtl(d, "none", 0) EXCEPT !.pc = "done", !.result = "empty"]
    /\ UNCHANGED <<lifeVars, hbVars, listVars, auxVars, cacheVars, tokenVars, now>>
    /\ UNCHANGED <<devSignal, sessPc, gatewayLog, retryDelay, cleanupCounter, cycles,
                   poll, msg, events, snapshot, resp, schemaResp>>

(***************************************************************************)
(* The PUT returned a successful envelope: the GET of the same endpoint    *)
(* with the same headers is sent.                                          *)
(***************************************************************************)
CtlPutOk ==
    /\ ctl.pc = "put"
    /\ ctl' = [ctl EXCEPT !.pc = "get", !.gets = 1]
    /\ UNCHANGED <<lifeVars, hbVars, listVars, auxVars, cacheVars, tokenVars, now>>
    /\ UNCHANGED <<devSignal, sessPc, gatewayLog, retryDelay, cleanupCounter, cycles,
                   poll, msg, events, snapshot, resp, schemaResp>>

(***************************************************************************)
(* The PUT or the GET raised or its envelope is rejected: _send_command    *)
(* raises TreeowClientException, control_callback logs it.                 *)
(***************************************************************************)
CtlFail ==
    /\ ctl.pc \in {"put", "get"}
    /\ CallbackCaught([ctl EXCEPT !.pc = "done", !.result = "failed"])
    /\ UNCHANGED <<procId, currentId, drainIdx, pollSleep, loopFails>>
    /\ UNCHANGED <<hbVars, listVars, auxVars, cacheVars, tokenVars, now>>
    /\ UNCHANGED <<devSignal, sessPc, gatewayLog, retryDelay, cleanupCounter, cycles,
                   poll, msg, events, snapshot, resp, schemaResp>>

(***************************************************************************)
(* The GET returned a successful envelope with data and meta: a value      *)
(* other than the written one raises TreeowClientException with the        *)
(* message of the envelope, the written value lets _send_command return.   *)
(***************************************************************************)
CtlGet(data, meta) ==
    /\ ctl.pc = "get"
    /\ IF ReadBackDiffers(data, ctl.value)
       THEN CallbackCaught([ctl EXCEPT !.pc = "done", !.result = "rejected",
                                       !.readback = data, !.meta = meta,
                                       !.message = MessageOf(meta)])
       ELSE /\ ctl' = [ctl EXCEPT !.pc = "done", !.result = "ok",
                                  !.readback = data, !.meta = meta]
            /\ UNCHANGED listening
    /\ UNCHANGED <<procId, currentId, drainIdx, pollSleep, loopFails>>
    /\ UNCHANGED <<hbVars, listVars, auxVars, cacheVars, tokenVars, now>>
    /\ UNCHANGED <<devSignal, sessPc, gatewayLog, retryDelay, cleanupCounter, cycles,
                   poll, msg, events, snapshot, resp, schemaResp>>

(***************************************************************************)
(* The group-based device listing: TreeowClient.get_devices.  The cloud    *)
(* knows the groups of GroupSeq with the devices of Members; broken names  *)
(* the requests that fail during the listing.                              *)
(***************************************************************************)
GroupSeq == <<"g1", "g2">>

Groups == {"g1", "g2"}

\* the raw devices the listing of each group returns, in order
Members == [g \in Groups |-> IF g = "g1" THEN <<"d1", "d2">> ELSE <<"d3">>]

ListedDevices == {"d1", "d2", "d3"}

NoTask == [pc |-> "none", idx |-> 0, devices |-> <<>>]

\* the input of the listing is free: any devices, any groups, or the
\* request of the groups may fail
Breakage == [devices : SUBSET ListedDevices, groups : SUBSET Groups, home : BOOLEAN]

NoBreakage == [devices |-> {}, groups |-> {}, home |-> FALSE]

(***************************************************************************)
(* get_devices awaits get_groups.                                          *)
(***************************************************************************)
ListStart ==
    /\ listPc = "idle"
    /\ listPc' = "groups"
    /\ UNCHANGED <<groupTask, listed, broken>>
    /\ UNCHANGED <<lifeVars, hbVars, ctlVars, auxVars, cacheVars, tokenVars, now>>
    /\ UNCHANGED <<devSignal, sessPc, gatewayLog, retryDelay, cleanupCounter, cycles,
                   poll, msg, events, snapshot, resp, schemaResp>>

(***************************************************************************)
(* get_groups returned the group ids: one _get_devices_for_group per group *)
(* is handed to asyncio.gather(.., return_exceptions=True).                *)
(***************************************************************************)
ListGroupsOk ==
    /\ listPc = "groups"
    /\ ~broken.home
    /\ listPc' = "gather"
    /\ groupTask' = [g \in Groups |-> [pc |-> "fetch", idx |-> 0, devices |-> <<>>]]
    /\ UNCHANGED <<listed, broken>>
    /\ UNCHANGED <<lifeVars, hbVars, ctlVars, auxVars, cacheVars, tokenVars, now>>
    /\ UNCHANGED <<devSignal, sessPc, gatewayLog, retryDelay, cleanupCounter, cycles,
                   poll, msg, events, snapshot, resp, schemaResp>>

(***************************************************************************)
(* get_groups raised: get_devices raises TreeowClientException.            *)
(***************************************************************************)
ListGroupsFail ==
    /\ listPc = "groups"
    /\ broken.home
    /\ listPc' = "raised"
    /\ UNCHANGED <<groupTask, listed, broken>>
    /\ UNCHANGED <<lifeVars, hbVars, ctlVars, auxVars, cacheVars, tokenVars, now>>
    /\ UNCHANGED <<devSignal, sessPc, gatewayLog, retryDelay, cleanupCounter, cycles,
                   poll, msg, events, snapshot, resp, schemaResp>>

\* the task of group g goes on with the raw device after the i-th, or
\* returns its list when there is none
AfterDevice(g, i, devices) ==
    IF i < Len(Members[g])
    THEN [pc |-> "init", idx |-> i + 1, devices |-> devices]
    ELSE [pc |-> "returned", idx |-> i, devices |-> devices]

(***************************************************************************)
(* _get_devices_for_group, the listing request of the group returned: the  *)
(* first raw device is wrapped and its async_init awaited.                 *)
(***************************************************************************)
GroupFetchOk(g) ==
    /\ listPc = "gather"
    /\ groupTask[g].pc = "fetch"
    /\ g \notin broken.groups
    /\ groupTask' = [groupTask EXCEPT ![g] = AfterDevice(g, 0, <<>>)]
    /\ UNCHANGED <<listPc, listed, broken>>
    /\ UNCHANGED <<lifeVars, hbVars, ctlVars, auxVars, cacheVars, tokenVars, now>>
    /\ UNCHANGED <<devSignal, sessPc, gatewayLog, retryDelay, cleanupCounter, cycles,
                   poll, msg, events, snapshot, resp, schemaResp>>

(***************************************************************************)
(* _get_devices_for_group, the listing request raised or its envelope is   *)
(* rejected: the exception is the result of the task.                      *)
(***************************************************************************)
GroupFetchFail(g) ==
    /\ listPc = "gather"
    /\ groupTask[g].pc = "fetch"
    /\ g \in broken.groups
    /\ groupTask' = [groupTask EXCEPT ![g] = [@ EXCEPT !.pc = "raised"]]
    /\ UNCHANGED <<listPc, listed, broken>>
    /\ UNCHANGED <<lifeVars, hbVars, ctlVars, auxVars, cacheVars, tokenVars, now>>
    /\ UNCHANGED <<devSignal, sessPc, gatewayLog, retryDelay, cleanupCounter, cycles,
                   poll, msg, events, snapshot, resp, schemaResp>>

(***************************************************************************)
(* _get_devices_for_group, async_init of the current raw device returned:  *)
(* devices.append(device), then the next device or `return devices`.       *)
(***************************************************************************)
DeviceInitOk(g) ==
    /\ listPc = "gather"
    /\ groupTask[g].pc = "init"
    /\ Members[g][groupTask[g].idx] \notin broken.devices
    /\ groupTask' = [groupTask EXCEPT ![g] =
                        AfterDevice(g, @.idx, Append(@.devices, Members[g][@.idx]))]
    /\ UNCHANGED <<listPc, listed, broken>>
    /\ UNCHANGED <<lifeVars, hbVars, ctlVars, auxVars, cacheVars, tokenVars, now>>
    /\ UNCHANGED <<devSignal, sessPc, gatewayLog, retryDelay, cleanupCounter, cycles,
                   poll, msg, events, snapshot, resp, schemaResp>>

(***************************************************************************)
(* _get_devices_for_group, async_init of the current raw device raised:    *)
(* nothing catches it in _get_devices_for_group, the exception is the      *)
(* result of the task and the local list is lost.                          *)
(***************************************************************************)
DeviceInitFail(g) ==
    /\ listPc = "gather"
    /\ groupTask[g].pc = "init"
    /\ Members[g][groupTask[g].idx] \in broken.devices
    /\ groupTask' = [groupTask EXCEPT ![g] = [@ EXCEPT !.pc = "raised"]]
    /\ UNCHANGED <<listPc, listed, broken>>
    /\ UNCHANGED <<lifeVars, hbVars, ctlVars, auxVars, cacheVars, tokenVars, now>>
    /\ UNCHANGED <<devSignal, sessPc, gatewayLog, retryDelay, cleanupCounter, cycles,
                   poll, msg, events, snapshot, resp, schemaResp>>

\* for result in results: if isinstance(result, list): devices.extend(result)
RECURSIVE Gathered(_)
Gathered(i) ==
    IF i = 0 THEN <<>>
    ELSE Gathered(i - 1) \o
         (IF groupTask[GroupSeq[i]].pc = "returned"
          THEN groupTask[GroupSeq[i]].devices ELSE <<>>)

(***************************************************************************)
(* asyncio.gather returned: the lists are concatenated in the order of the *)
(* groups, the exceptions are logged, get_devices returns.                 *)
(***************************************************************************)
ListGather ==
    /\ listPc = "gather"
    /\ \A g \in Groups : groupTask[g].pc \in {"returned", "raised"}
    /\ listed' = Gathered(Len(GroupSeq))
    /\ listPc' = "done"
    /\ UNCHANGED <<groupTask, broken>>
    /\ UNCHANGED <<lifeVars, hbVars, ctlVars, auxVars, cacheVars, tokenVars, now>>
    /\ UNCHANGED <<devSignal, sessPc, gatewayLog, retryDelay, cleanupCounter, cycles,
                   poll, msg, events, snapshot, resp, schemaResp>>

ElapseSession ==
    /\ \E dt \in CacheSteps : Elapse(dt, MaxNow)
    /\ UNCHANGED <<tokenVars, cacheVars, sessVars>>

ElapseToken ==
    /\ \E dt \in TokenSteps : Elapse(dt, MaxTokenNow)
    /\ UNCHANGED <<tokenVars, cacheVars, sessVars>>

(***************************************************************************)
(* Initial states and specifications.                                      *)
(***************************************************************************)
CacheIdle ==
    /\ dmCache = <<>>
    /\ dmCacheTime = <<>>
    /\ devVersion = [d \in Devices |-> 1]
    /\ call = [c \in Callers |-> NoCall]
    /\ entryVer = [d \in Devices |-> 0]
    /\ lastGet = NoGet

\* the updater task has just been started by a set-up
TokenStarted(expiry) ==
    /\ cfg = TokenInfo(1, expiry)
    /\ saved = cfg
    /\ tokPc = "loop"
    /\ tokenRetryDelay = TOKEN_RETRY_DELAY
    /\ tokSignal = FALSE
    /\ sleepFor = 0
    /\ expOf = <<expiry>>
    /\ run = NoRun
    /\ rejected = {}

NoInput == [fn |-> "none"]

NoOutput == [r |-> "none"]

\* the callers of _generate_common_headers: get_devices of the set-up, then
\* the polls and the heartbeats of the session
HeaderCallers == {"listing", "poll", "heartbeat"}

\* a version string, as the sequence of its characters
DEFAULT_APP_VERSION == <<"1", ".", "1", ".", "8">>

DEFAULT_IOS_VERSION == <<"1", "8", ".", "5">>

NoHeaders == [authorization |-> 0, app |-> <<>>, ios |-> <<>>]

\* TreeowClient.__init__(hass, access_token)
ClientCreated(access_token) ==
    /\ accessToken = access_token
    /\ appVersion = DEFAULT_APP_VERSION
    /\ iosVersion = DEFAULT_IOS_VERSION
    /\ headerCache = NoHeaders
    /\ versionsInitialized = FALSE
    /\ hdrPc = [t \in HeaderCallers |-> "idle"]
    /\ pending = [t \in HeaderCallers |-> {}]
    /\ returned = [t \in HeaderCallers |-> NoHeaders]
    /\ hdrCalls = [t \in HeaderCallers |-> 0]

\* no request is being composed: the client is as constructed
HdrIdle == ClientCreated(0)

\* vol.Range(min=1, max=60): the values of the form the model enters
PollIntervals == {1, DEFAULT_POLL_INTERVAL, 60}

\* async_step_user: async_create_entry(data={'account': {...,
\* 'poll_interval': user_input.get('poll_interval', DEFAULT_POLL_INTERVAL)}})
EntryCreated(poll_interval) == pollInterval = poll_interval

\* the entry was created with the default of the form
EntryDefault == EntryCreated(DEFAULT_POLL_INTERVAL)

\* no newer session has started
NewerOff ==
    /\ newerListening = FALSE
    /\ newerHb = [d \in Devices |-> FALSE]

\* no parser or entity method is under study
LibIdle ==
    /\ fnPc = "idle"
    /\ fnIn = NoInput
    /\ fnOut = NoOutput

\* get_devices is not running and nothing fails
ListIdle ==
    /\ listPc = "idle"
    /\ groupTask = [g \in Groups |-> NoTask]
    /\ listed = <<>>
    /\ broken = NoBreakage

\* no control event has been handled
ControlIdle == ctl = NoCtl

\* no session: listen_devices has not been called
SessionOff ==
    /\ sessPc = "off"
    /\ devSignal = FALSE
    /\ gatewayLog = <<>>
    /\ procId = 0
    /\ currentId = 0
    /\ listening = FALSE
    /\ drainIdx = 0
    /\ pollSleep = 0
    /\ loopFails = 0
    /\ hbPc = [d \in Devices |-> "off"]
    /\ hbSignal = [d \in Devices |-> FALSE]
    /\ hbCancel = [d \in Devices |-> FALSE]
    /\ hbDelay = [d \in Devices |-> HEARTBEAT_RETRY_DELAY]
    /\ hbWait = [d \in Devices |-> 0]
    /\ hbFails = [d \in Devices |-> 0]
    /\ ControlIdle
    /\ ListIdle
    /\ LibIdle
    /\ HdrIdle
    /\ EntryDefault
    /\ NewerOff
    /\ retryDelay = RETRY_DELAY
    /\ cleanupCounter = 0
    /\ cycles = 0
    /\ poll = [d \in Devices |-> "idle"]
    /\ msg = [d \in Devices |-> NoMsg]
    /\ events = [d \in Devices |-> <<>>]
    /\ snapshot = [d \in Devices |-> ValuesOf(RemoteModel(1), InitPayload)]
    /\ resp = [d \in Devices |-> "none"]
    /\ schemaResp = [d \in Devices |-> "none"]

\* a session at the head of its loop after n poll cycles
SessionRunning(n) ==
    /\ sessPc = "loop"
    /\ devSignal = FALSE
    /\ gatewayLog = <<GatewayStatus(1, TRUE)>>
    /\ procId = 1
    /\ currentId = 1
    /\ listening = TRUE
    /\ drainIdx = 0
    /\ pollSleep = 0
    /\ loopFails = 0
    /\ hbPc = [d \in Devices |-> "put"]
    /\ hbSignal = [d \in Devices |-> FALSE]
    /\ hbCancel = [d \in Devices |-> FALSE]
    /\ hbDelay = [d \in Devices |-> HEARTBEAT_RETRY_DELAY]
    /\ hbWait = [d \in Devices |-> 0]
    /\ hbFails = [d \in Devices |-> 0]
    /\ ControlIdle
    /\ ListIdle
    /\ LibIdle
    /\ HdrIdle
    /\ EntryDefault
    /\ NewerOff
    /\ retryDelay = RETRY_DELAY
    /\ cleanupCounter = n
    /\ cycles = 0
    /\ poll = [d \in Devices |-> "idle"]
    /\ msg = [d \in Devices |-> NoMsg]
    /\ events = [d \in Devices |-> <<>>]
    /\ snapshot = [d \in Devices |-> ValuesOf(RemoteModel(1), InitPayload)]
    /\ resp = [d \in Devices |-> "none"]
    /\ schemaResp = [d \in Devices |-> "none"]

\* the devices were initialised at time 0 (TreeowDevice.async_init): their
\* schema is cached
CacheFilled ==
    /\ dmCache = [d \in Devices |-> RemoteModel(1)]
    /\ dmCacheTime = [d \in Devices |-> 0]
    /\ devVersion = [d \in Devices |-> 1]
    /\ call = [c \in Callers |-> NoCall]
    /\ entryVer = [d \in Devices |-> 1]
    /\ lastGet = NoGet

InitCache ==
    /\ now = 0
    /\ CacheIdle
    /\ TokenStarted(2 * TOKEN_REFRESH_THRESHOLD)
    /\ SessionOff

NextCache ==
    \/ \E c \in Callers, d \in Devices : GetCached(c, d)
    \/ \E c \in Callers, d \in Devices : GetMiss(c, d)
    \/ \E c \in Callers, e \in BOOLEAN : GetFetchOk(c, e)
    \/ \E c \in Callers : GetFetchFail(c)
    \/ CleanupExpiredCache
    \/ \E d \in Devices, v \in Versions : DeviceUpgrade(d, v)
    \/ ElapseCache

InitToken ==
    /\ now = 0
    /\ CacheIdle
    /\ \E e \in InitExpiry : TokenStarted(e)
    /\ SessionOff

NextToken ==
    \/ SetupEntry
    \/ TokLoopEnter
    \/ TokLoopExit
    \/ VerifyOk
    \/ \E k \in {"invalid", "neterr"} : VerifyFail(k)
    \/ \E e \in ExpiresIn : LoginOk(e)
    \/ \E e \in ExpiresIn : RefreshOk(e)
    \/ \E k \in {"rejected", "neterr"} : LoginFail(k)
    \/ \E k \in {"rejected", "neterr"} : RefreshFail(k)
    \/ RetrySleepDone
    \/ CheckSleepDone
    \/ TokReload
    \/ UnloadEntry
    \/ ElapseToken

\* the session specification starts with listen_devices not yet called, or
\* with a session 58 cycles old
Init ==
    /\ now = 0
    /\ CacheFilled
    /\ TokenStarted(2 * TOKEN_REFRESH_THRESHOLD)
    /\ SessionOff \/ SessionRunning(CLEANUP_EVERY - 2)

\* the poll cycles of a bounded session
CycleStartCapped == cycles < MaxCycles /\ CycleStart

Next ==
    \/ SessStart
    \/ CycleStartCapped
    \/ \E d \in Devices, p \in Payloads : PollFetchOk(d, p)
    \/ \E d \in Devices : PollFetchEmpty(d)
    \/ \E d \in Devices, k \in {"fail", "undecodable"} : PollFail(d, k)
    \/ \E d \in Devices, e \in BOOLEAN : PollSchemaOk(d, e)
    \/ \E d \in Devices : PollSchemaFail(d)
    \/ CycleEnd
    \/ SleepDone
    \/ UnloadEntry
    \/ SessDrain
    \/ \E d \in Devices : HbCancelled(d)
    \/ DrainNext
    \/ SessStop
    \/ ElapseSession

(***************************************************************************)
(* The life of a session from listen_devices being called to its return,   *)
(* with its heartbeat tasks; the polls of this specification fail.  A      *)
(* reload may start a newer session while this one drains.                 *)
(***************************************************************************)
InitSession ==
    /\ now = 0
    /\ CacheFilled
    /\ TokenStarted(2 * TOKEN_REFRESH_THRESHOLD)
    /\ SessionOff

NextLifecycle ==
    \/ SessStart
    \/ CycleStartCapped
    \/ \E d \in Devices : PollFail(d, "fail")
    \/ CycleEnd
    \/ SleepDone
    \/ \E d \in Devices : HbOk(d)
    \/ \E d \in Devices : HbFail(d)
    \/ \E d \in Devices : HbSleepDone(d)
    \/ \E d \in Devices : HbRetrySleepDone(d)
    \/ \E d \in Devices : HbCancelled(d)
    \/ UnloadEntry
    \/ NewerSessionStart
    \/ SessDrain
    \/ DrainNext
    \/ SessStop

(***************************************************************************)
(* A session with its control consumer: control events arrive while the    *)
(* session polls and its heartbeats are answered.                          *)
(***************************************************************************)
NextControl ==
    \/ SessStart
    \/ CycleStartCapped
    \/ \E d \in Devices : PollFail(d, "fail")
    \/ CycleEnd
    \/ SleepDone
    \/ \E d \in Devices : HbOk(d)
    \/ \E d \in Devices : HbSleepDone(d)
    \/ \E d \in Devices : HbCancelled(d)
    \/ \E d \in Devices, v \in CtlValues : CtlRequest(d, "switch", v)
    \/ \E d \in Devices : CtlRequestEmpty(d)
    \/ CtlPutOk
    \/ CtlFail
    \/ \E data \in CtlValues, meta \in CtlMetas : CtlGet(data, meta)
    \/ UnloadEntry
    \/ SessDrain
    \/ DrainNext
    \/ SessStop

(***************************************************************************)
(* A session whose loop body may raise.                                    *)
(***************************************************************************)
NextBackoff ==
    \/ SessStart
    \/ CycleStartCapped
    \/ \E d \in Devices : PollFetchEmpty(d)
    \/ \E d \in Devices : PollFail(d, "fail")
    \/ CycleEnd
    \/ SleepDone
    \/ LoopRaise
    \/ BackoffDone
    \/ UnloadEntry
    \/ SessDrain
    \/ \E d \in Devices : HbCancelled(d)
    \/ DrainNext
    \/ SessStop

(***************************************************************************)
(* One call of get_devices, for every choice of the requests that fail.    *)
(***************************************************************************)
InitListing ==
    /\ now = 0
    /\ LibIdle
    /\ HdrIdle
    /\ EntryDefault
    /\ NewerOff
    /\ CacheIdle
    /\ TokenStarted(2 * TOKEN_REFRESH_THRESHOLD)
    /\ sessPc = "off"
    /\ devSignal = FALSE
    /\ gatewayLog = <<>>
    /\ retryDelay = RETRY_DELAY
    /\ cleanupCounter = 0
    /\ cycles = 0
    /\ poll = [d \in Devices |-> "idle"]
    /\ msg = [d \in Devices |-> NoMsg]
    /\ events = [d \in Devices |-> <<>>]
    /\ snapshot = [d \in Devices |-> <<>>]
    /\ resp = [d \in Devices |-> "none"]
    /\ schemaResp = [d \in Devices |-> "none"]
    /\ procId = 0
    /\ currentId = 0
    /\ listening = FALSE
    /\ drainIdx = 0
    /\ pollSleep = 0
    /\ loopFails = 0
    /\ hbPc = [d \in Devices |-> "off"]
    /\ hbSignal = [d \in Devices |-> FALSE]
    /\ hbCancel = [d \in Devices |-> FALSE]
    /\ hbDelay = [d \in Devices |-> HEARTBEAT_RETRY_DELAY]
    /\ hbWait = [d \in Devices |-> 0]
    /\ hbFails = [d \in Devices |-> 0]
    /\ ControlIdle
    /\ listPc = "idle"
    /\ groupTask = [g \in Groups |-> NoTask]
    /\ listed = <<>>
    /\ broken \in Breakage

NextListing ==
    \/ ListStart
    \/ ListGroupsOk
    \/ ListGroupsFail
    \/ \E g \in Groups : GroupFetchOk(g)
    \/ \E g \in Groups : GroupFetchFail(g)
    \/ \E g \in Groups : DeviceInitOk(g)
    \/ \E g \in Groups : DeviceInitFail(g)
    \/ ListGather

vars == <<now, cacheVars, tokenVars, sessVars>>

SpecLifecycle == InitSession /\ [][NextLifecycle]_vars

SpecControl == InitSession /\ [][NextControl]_vars

SpecBackoff == InitSession /\ [][NextBackoff]_vars

SpecListing == InitListing /\ [][NextListing]_vars

SpecCache == InitCache /\ [][NextCache]_vars

SpecToken == InitToken /\ [][NextToken]_vars

Spec == Init /\ [][Next]_vars

(***************************************************************************)
(* Persistent authentication failure: the integration is set up, the       *)
(* updater task and the session run, and from then on the cloud rejects    *)
(* the token at every verify, the credentials at every login and every     *)
(* device request.  The two tasks are scheduled fairly by the event loop;  *)
(* nothing obliges anyone to unload the entry.                             *)
(***************************************************************************)
InitAuthFail ==
    /\ now = 0
    /\ CacheFilled
    /\ TokenStarted(2 * TOKEN_REFRESH_THRESHOLD)
    /\ SessionRunning(0)

UpdaterStep ==
    \/ TokLoopEnter
    \/ VerifyFail("invalid")
    \/ LoginFail("rejected")
    \/ RetrySleepDone
    \/ TokLoopExit

SessionStep ==
    \/ CycleStart
    \/ \E d \in Devices : PollFail(d, "fail")
    \/ CycleEnd
    \/ SleepDone
    \/ SessDrain
    \/ \E d \in Devices : HbCancelled(d)
    \/ DrainNext
    \/ SessStop

NextAuthFail ==
    \/ UpdaterStep
    \/ SessionStep
    \/ UnloadEntry

SpecAuthFail ==
    /\ InitAuthFail
    /\ [][NextAuthFail]_vars
    /\ WF_vars(UpdaterStep)
    /\ WF_vars(SessionStep)

(***************************************************************************)
(* Persistent network failure: a running session all of whose device       *)
(* requests fail.  The session task is scheduled fairly; the entry may be  *)
(* unloaded at any time, or never.                                         *)
(***************************************************************************)
InitNetFail ==
    /\ now = 0
    /\ CacheFilled
    /\ TokenStarted(2 * TOKEN_REFRESH_THRESHOLD)
    /\ SessionRunning(0)

NextNetFail ==
    \/ SessionStep
    \/ UnloadEntry

SpecNetFail ==
    /\ InitNetFail
    /\ [][NextNetFail]_vars
    /\ WF_vars(SessionStep)

(***************************************************************************)
(* Stopping a session: a running session whose polls are answered or fail  *)
(* and whose heartbeats are answered; the entry may be unloaded at any     *)
(* time.  The session task and its heartbeat tasks are scheduled fairly    *)
(* and every request in flight returns.                                    *)
(***************************************************************************)
InitStop ==
    /\ now = 0
    /\ CacheFilled
    /\ TokenStarted(2 * TOKEN_REFRESH_THRESHOLD)
    /\ SessionRunning(0)

StopProgress ==
    \/ \E d \in Devices : PollFetchOk(d, InitPayload)
    \/ \E d \in Devices : PollFail(d, "fail")
    \/ CycleEnd
    \/ SleepDone
    \/ SessDrain
    \/ \E d \in Devices : HbCancelled(d)
    \/ DrainNext
    \/ SessStop

NextStop ==
    \/ CycleStartCapped
    \/ StopProgress
    \/ \E d \in Devices : HbOk(d)
    \/ \E d \in Devices : HbSleepDone(d)
    \/ UnloadEntry

SpecStop ==
    /\ InitStop
    /\ [][NextStop]_vars
    /\ WF_vars(StopProgress)

(***************************************************************************)
(* Claims about the digital-model cache, checked under SpecCache.          *)
(***************************************************************************)

\* C1: a get whose device reports another schema version than the one the
\* cached entry was fetched under issues exactly one remote fetch and
\* replaces the entry, also when the entry is younger than the TTL.
\* (The code compares no version: TLC finds this violated.)
C1_VersionChangeForcesRefetch ==
    (lastGet.ok /\ lastGet.stale) => lastGet.fetches = 1

\* C2: a get returns the cached list without a fetch only when an entry
\* exists and its age is below 3600 s, and it fetches only when there is no
\* such entry; a get that finds an entry of age >= 3600 s deletes it from
\* both maps before it fetches; a fetch that returns stores the fresh list
\* and the call's own time as the whole entry; of two consecutive
\* non-overlapping gets for one device, the second within the TTL of the
\* first, at most one fetches.
C2_HitOnlyWhenFresh ==
    /\ (lastGet.t >= 0 /\ lastGet.fetches = 0) =>
          lastGet.age >= 0 /\ lastGet.age < CACHE_EXPIRATION
    /\ lastGet.fetches = 1 =>
          lastGet.age = -1 \/ lastGet.age >= CACHE_EXPIRATION

C2_MissStep ==
    \A c \in Callers :
        (call[c].pc = "idle" /\ call'[c].pc = "fetch") =>
            LET d == call'[c].dev
            IN /\ d \notin DOMAIN dmCache'
               /\ d \notin DOMAIN dmCacheTime'
               /\ call'[c].time = now
               \* the second of two consecutive gets fetches only if the
               \* first did not
               /\ ( /\ lastGet.dev = d /\ lastGet.ok /\ ~lastGet.overl
                    /\ InFlight(d) = {}
                    /\ now - lastGet.t < CACHE_EXPIRATION )
                  => lastGet.fetches = 0

C2_StoreStep ==
    \A c \in Callers :
        (call[c].pc = "fetch" /\ call'[c].pc = "idle" /\ lastGet'.ok) =>
            LET d == call[c].dev
            IN /\ d \in DOMAIN dmCache' /\ d \in DOMAIN dmCacheTime'
               /\ dmCache'[d] = lastGet'.ret
               /\ lastGet'.ret \in {RemoteModel(call[c].ver), <<>>}
               /\ dmCacheTime'[d] = call[c].time
               /\ \A x \in Devices \ {d} :
                     /\ (x \in DOMAIN dmCache') = (x \in DOMAIN dmCache)
                     /\ x \in DOMAIN dmCache => dmCache'[x] = dmCache[x]

C2_CacheTtl == []C2_HitOnlyWhenFresh /\ [][C2_MissStep /\ C2_StoreStep]_vars

\* C2 witness: an entry of age exactly 3600 s was dropped and refetched, and
\* the fresh list is the entry
C2_Witness ==
    /\ lastGet.ok /\ lastGet.fetches = 1 /\ lastGet.age = CACHE_EXPIRATION
    /\ lastGet.dev \in DOMAIN dmCache
    /\ dmCache[lastGet.dev] = lastGet.ret
    /\ dmCacheTime[lastGet.dev] = lastGet.t

(***************************************************************************)
(* Claims about the token manager, checked under SpecToken.                *)
(***************************************************************************)

\* C3: one run of _try_update_token: after a failed verify it calls login
\* once, does not call refresh and reports Refreshed; after a successful
\* verify it never calls login, calls refresh exactly once when less than
\* 86400 s remain, and with 86400 s or more remaining calls no refresh and
\* reports Unchanged.
\* (With exactly 86400 s remaining the code refreshes: TLC finds this
\* violated.)
C3_EnsureFreshPolicy ==
    /\ run.verify \in {"invalid", "neterr"} =>
          /\ run.logins = 1 /\ run.refreshes = 0
          /\ run.result \in {"running", "Refreshed", "raised"}
    /\ run.verify = "ok" =>
          /\ run.logins = 0
          /\ run.remaining < TOKEN_REFRESH_THRESHOLD =>
                run.refreshes = 1 /\ run.result # "Unchanged"
          /\ run.remaining >= TOKEN_REFRESH_THRESHOLD =>
                run.refreshes = 0 /\ run.result = "Unchanged"

\* C4: the stored expires_at is always the one issued with the stored
\* access and refresh token; a run that reports Refreshed has replaced the
\* three fields by the latest TokenInfo and saved them, once, before it
\* returned; a run that raised left the stored and the saved credentials as
\* it found them and saved nothing; the credentials change only in a step
\* that writes them through.
C4_ExpiryOfStoredPair ==
    /\ cfg.access_token = cfg.refresh_token
    /\ cfg.access_token \in 1..Len(expOf)
    /\ cfg.expires_at = expOf[cfg.access_token]

C4_RunOutcome ==
    /\ run.result = "Refreshed" =>
          /\ run.saves = 1
          /\ saved = cfg
          /\ cfg = TokenInfo(Len(expOf), expOf[Len(expOf)])
          /\ cfg.access_token # run.start.access_token
    /\ run.result = "raised" =>
          /\ run.saves = 0
          /\ cfg = run.start
          /\ saved = run.startSaved

C4_StoreStep ==
    (cfg' # cfg \/ saved' # saved) =>
        /\ saved' = cfg'
        /\ \/ /\ tokPc \in {"login", "refresh"}
              /\ run'.result = "Refreshed"
              /\ cfg'.access_token = Len(expOf')
           \/ /\ tokPc \in {"done", "stopped", "failed"}
              /\ saved' = saved

C4_WriteThrough ==
    /\ [](C4_ExpiryOfStoredPair /\ C4_RunOutcome)
    /\ [][C4_StoreStep]_vars

\* C4 witness: a refresh inside the updater returned a TokenInfo whose
\* expiry differs from the one stored before, and it is stored and saved
C4_Witness ==
    /\ run.result = "Refreshed" /\ run.by = "updater" /\ run.refreshes = 1
    /\ saved = cfg
    /\ cfg.expires_at # run.start.expires_at
    /\ cfg.access_token # run.start.access_token

\* C5: a run whose verify failed with a network error (timeout, connection
\* error) raises to its caller without calling login.
\* (verify_token wraps every exception into TreeowClientException, which
\* the run answers with a login: TLC finds this violated.)
C5_NetworkErrorNoLogin ==
    run.verify = "neterr" => (run.logins = 0 /\ run.result \in {"running", "raised"})

\* C6: the updater loop never calls refresh with a refresh token that a
\* refresh has already been rejected for.
\* (The loop sleeps the retry delay and runs again with the stored token:
\* TLC finds this violated.)
C6_RejectedTokenNotRetried ==
    ~(tokPc = "refresh" /\ run.by = "updater" /\ cfg.refresh_token \in rejected)

(***************************************************************************)
(* Claim about persistent authentication failure, checked under            *)
(* SpecAuthFail.                                                           *)
(***************************************************************************)

\* C7: when every verify is invalid and every login is rejected, the
\* session eventually publishes gateway_status_changed(False) and stops.
\* (The updater retries for ever with its capped delay and the session
\* keeps polling: TLC finds a fair behaviour that never publishes it.)
C7_AuthFailureEndsSession ==
    <>(sessPc = "stopped" /\ gatewayLog # <<>> /\ ~gatewayLog[Len(gatewayLog)].status)

(***************************************************************************)
(* Claims about the poll cycle, checked under Spec.                        *)
(***************************************************************************)
Failed(d) == resp[d] \in {"fail", "undecodable"}

Published(d) == resp[d] = "ok" /\ schemaResp[d] # "fail"

\* C8: in a cycle whose gather has returned, for distinct devices a and b:
\* if the fetch or the decode of a raised, the fetch of b has run all the
\* same, and whenever it returned data that decodes and its schema lookup
\* did not fail, the event of b was published in that cycle.
C8_PollIsolation ==
    sessPc = "sleep" =>
        \A a, b \in Devices :
            (a # b /\ Failed(a)) =>
                /\ resp[b] # "none"
                /\ poll[b] = "done"
                /\ Published(b) =>
                      Len(events[b]) = 1 /\ events[b][1].deviceId = b

\* C8 witness: the cycle is over, the poll of d1 raised and the event of d2
\* was published
C8_Witness ==
    /\ sessPc = "sleep"
    /\ resp["d1"] = "fail"
    /\ resp["d2"] = "ok"
    /\ Len(events["d2"]) = 1
    /\ events["d2"][1].deviceId = "d2"

\* C9: after a cycle in which the fetch of a device succeeded and its event
\* was published, attribute_snapshot_data of the device equals the values
\* of that event.
\* (The snapshot is written by async_init only: TLC finds this violated.)
C9_SnapshotFollowsEvent ==
    sessPc = "sleep" =>
        \A d \in Devices :
            Len(events[d]) = 1 => snapshot[d] = events[d][1].attributes

\* C10 as stated: every event carries the id of the polled device and
\* exactly the payload keys that are identifiers of the schema, with the
\* payload values, and every fetch that returned a successful envelope has
\* published exactly one event when its poll ends.
\* (A successful envelope without data or props, props that do not decode
\* and a failed schema lookup publish nothing: TLC finds this violated.)
C10_EventContents ==
    \A d \in Devices :
        /\ Len(events[d]) <= 1
        /\ (sessPc \in {"poll", "sleep"} /\ Len(events[d]) = 1) =>
              LET e == events[d][1]
                  data == msg[d].data
              IN /\ e.deviceId = d
                 /\ d \in DOMAIN dmCache
                 /\ DOMAIN e.attributes = DOMAIN data \cap Range(dmCache[d])
                 /\ \A k \in DOMAIN e.attributes : e.attributes[k] = data[k]

C10_OneEventPerSuccessfulFetch ==
    C10_EventContents /\
    \A d \in Devices :
        (poll[d] = "done" /\ resp[d] \in {"ok", "empty", "undecodable"}) =>
            Len(events[d]) = 1

\* C10 amended: every event carries the id of the polled device and exactly
\* the payload keys that are identifiers of the schema, with the payload
\* values; a poll publishes at most one event, and when it has ended it has
\* published one exactly if the fetch returned props that decode and the
\* schema lookup did not fail.
C10_OneEventPerDecodedFetch ==
    C10_EventContents /\
    \A d \in Devices :
        /\ Len(events[d]) = 1 => (resp[d] = "ok" /\ schemaResp[d] # "fail")
        /\ (poll[d] = "done" /\ Published(d)) => Len(events[d]) = 1

\* C10 witness: a payload with a key outside the schema was published
\* without that key, next to a poll that fetched an empty envelope and
\* published nothing
C10_Witness ==
    /\ sessPc = "sleep"
    /\ Len(events["d1"]) = 1
    /\ "rssi" \in DOMAIN msg["d1"].data
    /\ DOMAIN events["d1"][1].attributes = {"pm25"}
    /\ resp["d2"] = "empty"
    /\ events["d2"] = <<>>

(***************************************************************************)
(* The parsers and the entity methods.  Each is a function of its          *)
(* arguments; it is applied to every argument of a bounded set.            *)
(***************************************************************************)
coreVars == <<now, cacheVars, tokenVars, devSignal, sessPc, gatewayLog, retryDelay,
              cleanupCounter, cycles, poll, msg, events, snapshot, resp, schemaResp,
              lifeVars, hbVars, ctlVars, listVars>>

restVars == <<coreVars, hdrVars, entryVars, newerVars>>

\* a method was called with the arguments a
Called(a) ==
    /\ fnPc = "called"
    /\ fnIn = a
    /\ fnOut = NoOutput

\* the session, the cache and the token updater are at rest
InitCore ==
    /\ now = 0
    /\ CacheIdle
    /\ TokenStarted(2 * TOKEN_REFRESH_THRESHOLD)
    /\ sessPc = "off"
    /\ devSignal = FALSE
    /\ gatewayLog = <<>>
    /\ procId = 0
    /\ currentId = 0
    /\ listening = FALSE
    /\ drainIdx = 0
    /\ pollSleep = 0
    /\ loopFails = 0
    /\ hbPc = [d \in Devices |-> "off"]
    /\ hbSignal = [d \in Devices |-> FALSE]
    /\ hbCancel = [d \in Devices |-> FALSE]
    /\ hbDelay = [d \in Devices |-> HEARTBEAT_RETRY_DELAY]
    /\ hbWait = [d \in Devices |-> 0]
    /\ hbFails = [d \in Devices |-> 0]
    /\ ControlIdle
    /\ ListIdle
    /\ retryDelay = RETRY_DELAY
    /\ cleanupCounter = 0
    /\ cycles = 0
    /\ poll = [d \in Devices |-> "idle"]
    /\ msg = [d \in Devices |-> NoMsg]
    /\ events = [d \in Devices |-> <<>>]
    /\ snapshot = [d \in Devices |-> ValuesOf(RemoteModel(1), InitPayload)]
    /\ resp = [d \in Devices |-> "none"]
    /\ schemaResp = [d \in Devices |-> "none"]

\* everything but the method under study is at rest
InitRest ==
    /\ InitCore
    /\ HdrIdle
    /\ EntryDefault
    /\ NewerOff

(***************************************************************************)
(* _assert_response_successful.  A text is a sequence of words; an         *)
(* envelope is a dict with some of the keys code, message (or msg) and     *)
(* errors; a response is a dict with some of the keys meta, result, code   *)
(* and msg.  A key that is absent has the value the code's .get() falls    *)
(* back to.                                                                *)
(***************************************************************************)
SUCCESS_CODE == 200

Codes == {SUCCESS_CODE, 500}

Texts == {<<"ok">>, <<"server", "error">>}

\* the words that contain 'error'
ErrorWords == {"error", "errors"}

\* 'error' in text
HasError(text) == \E i \in DOMAIN text : text[i] \in ErrorWords

NoEnvelope == [keys |-> {}, code |-> 0, text |-> <<>>]

Envelopes(m) ==
    {e \in [keys : SUBSET {"code", m, "errors"}, code : Codes \cup {0}, text : Texts \cup {<<>>}] :
        /\ ("code" \in e.keys) = (e.code # 0)
        /\ (m \in e.keys) = (e.text # <<>>)}

Responses ==
    {r \in [keys : SUBSET {"meta", "result", "code", "msg"},
            meta : Envelopes("message"), result : Envelopes("msg"),
            code : Codes \cup {0}, msg : Texts \cup {<<>>}] :
        /\ "meta" \notin r.keys => r.meta = NoEnvelope
        /\ "result" \notin r.keys => r.result = NoEnvelope
        /\ ("code" \in r.keys) = (r.code # 0)
        /\ ("msg" \in r.keys) = (r.msg # <<>>)}

\* 'error' in str(envelope): the keys and the values are all printed
StrHasError(e) == (e.keys \cap ErrorWords # {}) \/ HasError(e.text)

\* message or 'Unknown error'
TextOr(text) == IF text = <<>> THEN <<"Unknown", "error">> ELSE text

Accepted == [r |-> "ok"]

ApiResponseError(text) == [r |-> "raise", message |-> text]

\* mutant: the embedded error marker is not looked at
ResponseFailsCodeOnly(code, marker) == code # SUCCESS_CODE

\* int(code) != 200 or 'error' in ...
ResponseFails(code, marker) == code # SUCCESS_CODE \/ marker

AssertResponseSuccessful(r) ==
    IF "meta" \in r.keys
    THEN IF ResponseFails(r.meta.code, StrHasError(r.meta))
         THEN ApiResponseError(TextOr(r.meta.text)) ELSE Accepted
    ELSE IF "result" \in r.keys
    THEN IF ResponseFails(r.result.code, StrHasError(r.result))
         THEN ApiResponseError(TextOr(r.result.text)) ELSE Accepted
    ELSE IF ResponseFails(r.code, HasError(r.msg))
         THEN ApiResponseError(TextOr(r.msg)) ELSE Accepted

AssertResponse ==
    /\ fnPc = "called"
    /\ fnIn.fn = "assert_response"
    /\ fnPc' = "returned"
    /\ fnOut' = AssertResponseSuccessful(fnIn.resp)
    /\ UNCHANGED fnIn
    /\ UNCHANGED restVars

InitEnvelope ==
    /\ InitRest
    /\ \E r \in Responses : Called([fn |-> "assert_response", resp |-> r])

NextEnvelope == AssertResponse

SpecEnvelope == InitEnvelope /\ [][NextEnvelope]_vars

(***************************************************************************)
(* V1SpecAttributeParser.  A schema entry is a dict; a key that may be     *)
(* absent is listed in `has` when it is present.  A display name is a      *)
(* sequence of words; the keywords of SENSOR_KEYWORDS are written in       *)
(* pinyin: leiji, tianshu, xiaoshi, wendu, shidu, shouming, jiaquan,       *)
(* shuiwei, shuiliang, yewei.                                              *)
(***************************************************************************)
EXCLUDED_ATTRIBUTES == {"wifi_info", "timestamp"}

NoClass == [state_class |-> "none", device_class |-> "none", unit |-> "none"]

Classes(state, device, unit) == [state_class |-> state, device_class |-> device, unit |-> unit]

\* the dict SENSOR_KEYWORDS in its order: keyword, tuple
SENSOR_KEYWORDS ==
    << <<"leiji", Classes("total", "none", "none")>>,
       <<"tianshu", Classes("measurement", "duration", "d")>>,
       <<"xiaoshi", Classes("measurement", "duration", "h")>>,
       <<"wendu", Classes("none", "temperature", "C")>>,
       <<"shidu", Classes("none", "humidity", "%")>>,
       <<"shouming", Classes("none", "battery", "%")>>,
       <<"jiaquan", Classes("measurement", "aqi", "none")>>,
       <<"shuiwei", Classes("measurement", "none", "%")>>,
       <<"shuiliang", Classes("measurement", "none", "%")>>,
       <<"yewei", Classes("measurement", "none", "%")>> >>

IDENTIFIER_MAPPINGS ==
    [i \in {"pm25", "aal"} |->
        IF i = "pm25" THEN Classes("measurement", "pm25", "ug/m3")
        ELSE Classes("measurement", "aqi", "none")]

\* a title is the JSON text of a dict with the key zh, or any other text
Titles(names) == [kind : {"zh", "raw"}, words : names]

\* _get_display_name: json.loads(title)['zh'], or the title itself
GetDisplayName(title) == title.words

\* str.lower() of the schema types of the model
Lower(type) ==
    CASE type = "Integer" -> "integer"
      [] type = "Double" -> "double"
      [] OTHER -> type

\* helpers.equals_ignore_case
EqualsIgnoreCase(value, target) == Lower(value) = Lower(target)

\* helpers.contains_any_ignore_case
ContainsAnyIgnoreCase(value, targets) == \E t \in targets : Lower(value) = Lower(t)

RECURSIVE FirstKeyword(_, _)
\* the loop over SENSOR_KEYWORDS.items(): the first keyword the name holds
FirstKeyword(name, i) ==
    IF i > Len(SENSOR_KEYWORDS) THEN NoClass
    ELSE IF SENSOR_KEYWORDS[i][1] \in Range(name) THEN SENSOR_KEYWORDS[i][2]
    ELSE FirstKeyword(name, i + 1)

GuessStateClassDeviceClassAndUnit(attribute) ==
    IF attribute.identifier \in DOMAIN IDENTIFIER_MAPPINGS
    THEN IDENTIFIER_MAPPINGS[attribute.identifier]
    ELSE FirstKeyword(GetDisplayName(attribute.title), 1)

NoOptions ==
    [keys |-> {}, state_class |-> "none", device_class |-> "none", unit |-> "none",
     native_min_value |-> 0, native_max_value |-> 0, native_step |-> 0, options |-> <<>>]

TreeowAttribute(key, name, platform, options, ext) ==
    [r |-> "attr", key |-> key, display_name |-> name, platform |-> platform,
     options |-> options, ext |-> ext]

\* the options that are set are those whose value is truthy
ClassOptions(c) ==
    [NoOptions EXCEPT
        !.keys = {k \in {"device_class", "state_class", "unit"} : c[k] # "none"},
        !.state_class = c.state_class,
        !.device_class = c.device_class,
        !.unit = c.unit]

ParseAsSensor(attribute) ==
    TreeowAttribute(attribute.identifier, GetDisplayName(attribute.title), "sensor",
        IF EqualsIgnoreCase(attribute.type, "integer")
        THEN ClassOptions(GuessStateClassDeviceClassAndUnit(attribute))
        ELSE NoOptions,
        <<>>)

ParseAsSwitch(attribute) ==
    TreeowAttribute(attribute.identifier, GetDisplayName(attribute.title), "switch",
        [NoOptions EXCEPT !.keys = {"device_class"}, !.device_class = "switch"], <<>>)

\* schema.get(key, default)
SchemaGet(attribute, key, default) ==
    IF key \in attribute.has THEN attribute[key] ELSE default

ParseAsNumber(attribute) ==
    LET unit == GuessStateClassDeviceClassAndUnit(attribute).unit IN
    TreeowAttribute(attribute.identifier, GetDisplayName(attribute.title), "number",
        [NoOptions EXCEPT
            !.keys = {"native_min_value", "native_max_value", "native_step"}
                        \cup (IF unit # "none" THEN {"unit"} ELSE {}),
            !.native_min_value = SchemaGet(attribute, "minimum", 0),
            !.native_max_value = SchemaGet(attribute, "maximum", 100),
            !.native_step = SchemaGet(attribute, "step", 1),
            !.unit = unit],
        <<>>)

(***************************************************************************)
(* _parse_as_select.  A dict is a sequence of <<key, value>> pairs in the  *)
(* order of insertion; its keys and values are integers or strings, told   *)
(* apart by a tag as Python tells 1 from '1'.                              *)
(***************************************************************************)
IntVal(i) == [t |-> "int", i |-> i, s |-> ""]

StrVal(x) == [t |-> "str", i |-> 0, s |-> x]

HasKey(dict, k) == \E j \in DOMAIN dict : dict[j][1] = k

Lookup(dict, k) == dict[CHOOSE j \in DOMAIN dict : dict[j][1] = k][2]

\* dict[k] = v
Put(dict, k, v) ==
    IF HasKey(dict, k)
    THEN [j \in DOMAIN dict |-> IF dict[j][1] = k THEN <<k, v>> ELSE dict[j]]
    ELSE Append(dict, <<k, v>>)

FAN_SPEED_OFF_CODE == 255

\* the enum and the enumDesc the table is built from
SelectEnum(attribute) ==
    IF attribute.identifier = "fan_speed_enum"
    THEN <<FAN_SPEED_OFF_CODE>> \o attribute.enum ELSE attribute.enum

\* mutant: the label of the synthetic entry is not prepended
SelectEnumDescAsListed(attribute) == attribute.enumDesc

SelectEnumDesc(attribute) ==
    IF attribute.identifier = "fan_speed_enum"
    THEN <<"0gear">> \o attribute.enumDesc ELSE attribute.enumDesc

RECURSIVE ComparisonTable(_, _, _)
\* the loop over zip(enum, enum_desc), up to the n-th pair
ComparisonTable(enum, desc, n) ==
    IF n = 0 THEN <<>>
    ELSE Put(Put(ComparisonTable(enum, desc, n - 1), IntVal(enum[n]), StrVal(desc[n])),
             StrVal(desc[n]), IntVal(enum[n]))

ParseAsSelect(attribute) ==
    LET enum == SelectEnum(attribute)
        desc == SelectEnumDesc(attribute)
    IN TreeowAttribute(attribute.identifier, GetDisplayName(attribute.title), "select",
           [NoOptions EXCEPT !.keys = {"options"}, !.options = desc],
           ComparisonTable(enum, desc, Min(Len(enum), Len(desc))))

ParseAsFan(attribute) ==
    TreeowAttribute(attribute.identifier, GetDisplayName(attribute.title), "fan",
                    NoOptions, <<>>)

Rejected == [r |-> "none"]

\* mutant: the enum list is looked at before the step
ParseReadwriteAttributeEnumFirst(attribute) ==
    IF attribute.type = "boolean" THEN ParseAsSwitch(attribute)
    ELSE IF attribute.type = "integer" /\ "enum" \in attribute.has
    THEN ParseAsSelect(attribute)
    ELSE IF "step" \in attribute.has /\ ContainsAnyIgnoreCase(attribute.type, {"Integer", "Double"})
    THEN ParseAsNumber(attribute)
    ELSE Rejected

ParseReadwriteAttribute(attribute) ==
    IF attribute.type = "boolean" THEN ParseAsSwitch(attribute)
    ELSE IF "step" \in attribute.has /\ ContainsAnyIgnoreCase(attribute.type, {"Integer", "Double"})
    THEN ParseAsNumber(attribute)
    ELSE IF attribute.type = "integer" /\ "enum" \in attribute.has
    THEN ParseAsSelect(attribute)
    ELSE Rejected

\* snapshot_data is given by the set of its keys
ParseAttributeOf(attribute, snapshot_keys) ==
    IF attribute.identifier = "" \/ attribute.identifier \notin snapshot_keys THEN Rejected
    ELSE IF attribute.identifier \in EXCLUDED_ATTRIBUTES THEN Rejected
    ELSE IF attribute.access = "r" THEN ParseAsSensor(attribute)
    ELSE IF attribute.access = "rw" THEN ParseReadwriteAttribute(attribute)
    ELSE Rejected

\* a schema entry of the model
Entry(id, title, access, type, has, min, max, step, enum, desc) ==
    [identifier |-> id, title |-> title, access |-> access, type |-> type, has |-> has,
     minimum |-> min, maximum |-> max, step |-> step, enum |-> enum, enumDesc |-> desc]

ParseNames == {<<>>, <<"wendu">>, <<"leiji", "xiaoshi">>, <<"pm25", "shidu">>}

ParseIdentifiers == {"", "pm25", "pm25_out", "mode", "wifi_info"}

ParseTypes == {"boolean", "integer", "Integer", "double", "string"}

\* minimum and maximum come together, the step and the enum list on their own
ParseHas == {h \in SUBSET {"minimum", "maximum", "step", "enum"} :
                ("minimum" \in h) = ("maximum" \in h)}

ParseEntries ==
    {Entry(id, title, a, t, h,
           IF "minimum" \in h THEN 16 ELSE 0, IF "maximum" \in h THEN 30 ELSE 0,
           IF "step" \in h THEN 2 ELSE 0,
           IF "enum" \in h THEN <<1, 2>> ELSE <<>>,
           IF "enum" \in h THEN <<"low", "high">> ELSE <<>>) :
        id \in ParseIdentifiers, title \in Titles(ParseNames), a \in {"r", "rw", "w"},
        t \in ParseTypes, h \in ParseHas}

ParseAttribute ==
    /\ fnPc = "called"
    /\ fnIn.fn = "parse_attribute"
    /\ fnPc' = "returned"
    /\ fnOut' = ParseAttributeOf(fnIn.attribute, fnIn.snapshot)
    /\ UNCHANGED fnIn
    /\ UNCHANGED restVars

InitParse ==
    /\ InitRest
    /\ \E e \in ParseEntries, k \in {{}, {"pm25", "wifi_info"}, ParseIdentifiers \ {""}} :
          Called([fn |-> "parse_attribute", attribute |-> e, snapshot |-> k])

NextParse == ParseAttribute

SpecParse == InitParse /\ [][NextParse]_vars

(***************************************************************************)
(* TreeowSelect: the entity of a select attribute.  __init__ builds the    *)
(* reverse table; _update_value decodes the value the device reports;      *)
(* select_option encodes the option chosen and sends it as a command.      *)
(***************************************************************************)
RECURSIVE ReverseTable(_, _)
\* the loop over value_comparison_table.items(), up to the n-th item
ReverseTable(table, n) ==
    IF n = 0 THEN <<>>
    ELSE Put(ReverseTable(table, n - 1), table[n][2], table[n][1])

\* str(value) of the integers of the model
Str(i) ==
    CASE i = 0 -> "0"
      [] i = 1 -> "1"
      [] i = 2 -> "2"
      [] i = 3 -> "3"
      [] i = 255 -> "255"

\* _update_value: the option shown for the reported value
CurrentOption(table, value) ==
    IF HasKey(table, value) THEN Lookup(table, value)
    ELSE IF value.t = "int" THEN StrVal(Str(value.i)) ELSE value

\* select_option: the value of the command
CommandValue(reverse, option) ==
    IF HasKey(reverse, option) THEN Lookup(reverse, option) ELSE option

NoVal == [t |-> "none", i |-> 0, s |-> ""]

RECURSIVE Distinct(_)
\* the sequences of pairwise distinct elements of S
Distinct(S) ==
    IF S = {} THEN {<<>>}
    ELSE {<<>>} \cup UNION {{<<x>> \o q : q \in Distinct(S \ {x})} : x \in S}

SelectCodes == {0, 1, 2}

SelectLabels == {"low", "mid", "high"}

\* read-write integer entries with as many distinct labels as distinct codes
SelectEntries ==
    {e \in {Entry(id, [kind |-> "zh", words |-> <<"shidu">>], "rw", "integer", {"enum"},
                  0, 0, 0, enum, desc) :
                id \in {"mode", "fan_speed_enum"},
                enum \in Distinct(SelectCodes) \ {<<>>},
                desc \in Distinct(SelectLabels) \ {<<>>}} :
        Len(e.enum) = Len(e.enumDesc)}

\* the values a device may report for the attribute
ReportedValues == {IntVal(i) : i \in SelectCodes \cup {3, FAN_SPEED_OFF_CODE}}

SelectInit ==
    /\ fnPc = "called"
    /\ fnIn.fn = "select"
    /\ LET attribute == ParseAttributeOf(fnIn.attribute, {fnIn.attribute.identifier})
       IN /\ attribute.r = "attr"
          /\ attribute.platform = "select"
          /\ fnOut' = [r |-> "select",
                       options |-> attribute.options.options,
                       table |-> attribute.ext,
                       reverse |-> ReverseTable(attribute.ext, Len(attribute.ext)),
                       first |-> NoVal, option |-> NoVal, command |-> NoVal]
    /\ fnPc' = "built"
    /\ UNCHANGED fnIn
    /\ UNCHANGED restVars

\* the user chooses one of the options of the entity
SelectOption(label) ==
    /\ fnPc = "built"
    /\ fnIn.fn = "select"
    /\ label \in Range(fnOut.options)
    /\ fnOut' = [fnOut EXCEPT !.first = StrVal(label),
                              !.command = CommandValue(fnOut.reverse, StrVal(label))]
    /\ fnPc' = "sent"
    /\ UNCHANGED fnIn
    /\ UNCHANGED restVars

\* the device reports the value of the command
UpdateValueSent ==
    /\ fnPc = "sent"
    /\ fnIn.fn = "select"
    /\ fnOut' = [fnOut EXCEPT !.option = CurrentOption(fnOut.table, fnOut.command)]
    /\ fnPc' = "echoed"
    /\ UNCHANGED fnIn
    /\ UNCHANGED restVars

\* the device reports a value
UpdateValue(value) ==
    /\ fnPc = "built"
    /\ fnIn.fn = "select"
    /\ fnOut' = [fnOut EXCEPT !.first = value,
                              !.option = CurrentOption(fnOut.table, value)]
    /\ fnPc' = "shown"
    /\ UNCHANGED fnIn
    /\ UNCHANGED restVars

\* the user chooses the option that is shown
SelectOptionShown ==
    /\ fnPc = "shown"
    /\ fnIn.fn = "select"
    /\ fnOut' = [fnOut EXCEPT !.command = CommandValue(fnOut.reverse, fnOut.option)]
    /\ fnPc' = "resent"
    /\ UNCHANGED fnIn
    /\ UNCHANGED restVars

InitSelect ==
    /\ InitRest
    /\ \E e \in SelectEntries : Called([fn |-> "select", attribute |-> e])

NextSelect ==
    \/ SelectInit
    \/ \E label \in SelectLabels \cup {"0gear"} : SelectOption(label)
    \/ UpdateValueSent
    \/ \E value \in ReportedValues : UpdateValue(value)
    \/ SelectOptionShown

SpecSelect == InitSelect /\ [][NextSelect]_vars

(***************************************************************************)
(* TreeowDevice.async_init, after the snapshot and the schema are there:   *)
(* every schema entry is parsed, then the global pass runs on the schema.  *)
(***************************************************************************)
AIR_PURIFIER_KEYS == {"pm25", "filter", "fan"}

\* {attr.get('identifier') for attr in attributes if attr.get('identifier')}
AttributeKeys(attributes) ==
    {attributes[i].identifier : i \in DOMAIN attributes} \ {""}

\* the first entry of the schema whose identifier is fan
FirstFan(attributes) ==
    attributes[CHOOSE i \in DOMAIN attributes :
                  /\ attributes[i].identifier = "fan"
                  /\ \A j \in 1..(i - 1) : attributes[j].identifier # "fan"]

\* mutant: the composite is built whenever the schema lists fan
ParseGlobalFanAlone(attributes) ==
    IF "fan" \in AttributeKeys(attributes)
    THEN <<ParseAsFan(FirstFan(attributes))>>
    ELSE <<>>

\* what the generator parse_global yields
ParseGlobal(attributes) ==
    IF AIR_PURIFIER_KEYS \subseteq AttributeKeys(attributes)
    THEN <<ParseAsFan(FirstFan(attributes))>>
    ELSE <<>>

Plain(words) == [kind |-> "zh", words |-> words]

\* the entries the schemas of the model are made of, in their order
SchemaBase ==
    << Entry("pm25", Plain(<<"pm25">>), "r", "integer", {}, 0, 0, 0, <<>>, <<>>),
       Entry("filter", Plain(<<"shouming">>), "r", "integer", {}, 0, 0, 0, <<>>, <<>>),
       Entry("fan", Plain(<<"fan">>), "rw", "boolean", {}, 0, 0, 0, <<>>, <<>>),
       Entry("fan_speed_enum", Plain(<<"speed">>), "rw", "integer", {"enum"},
             0, 0, 0, <<1, 2>>, <<"low", "high">>),
       Entry("temp", Plain(<<"wendu">>), "r", "double", {}, 0, 0, 0, <<>>, <<>>),
       Entry("wifi_info", Plain(<<>>), "r", "string", {}, 0, 0, 0, <<>>, <<>>) >>

RECURSIVE Picked(_, _)
\* the entries of SchemaBase up to the n-th whose index is in I
Picked(I, n) ==
    IF n = 0 THEN <<>>
    ELSE IF n \in I THEN Append(Picked(I, n - 1), SchemaBase[n])
    ELSE Picked(I, n - 1)

Schemas == {Picked(I, Len(SchemaBase)) : I \in SUBSET DOMAIN SchemaBase}

AllKeys == {SchemaBase[i].identifier : i \in DOMAIN SchemaBase}

Snapshots == {AllKeys, AllKeys \ {"fan"}, {}}

\* the snapshot and the schema have arrived
AsyncInitStart ==
    /\ fnPc = "called"
    /\ fnIn.fn = "async_init"
    /\ fnPc' = "items"
    /\ fnOut' = [r |-> "device", idx |-> 1, parsed |-> <<>>, attributes |-> <<>>]
    /\ UNCHANGED fnIn
    /\ UNCHANGED restVars

\* one turn of the loop over the schema
AsyncInitItem ==
    /\ fnPc = "items"
    /\ fnIn.fn = "async_init"
    /\ fnOut.idx <= Len(fnIn.schema)
    /\ LET attr == ParseAttributeOf(fnIn.schema[fnOut.idx], fnIn.snapshot)
       IN fnOut' = [fnOut EXCEPT
                       !.idx = @ + 1,
                       !.parsed = IF attr.r = "attr" THEN Append(@, attr) ELSE @]
    /\ UNCHANGED <<fnPc, fnIn>>
    /\ UNCHANGED restVars

\* the parsed attributes and what parse_global yields are added
AsyncInitGlobal ==
    /\ fnPc = "items"
    /\ fnIn.fn = "async_init"
    /\ fnOut.idx > Len(fnIn.schema)
    /\ fnOut' = [fnOut EXCEPT !.attributes = fnOut.parsed \o ParseGlobal(fnIn.schema)]
    /\ fnPc' = "done"
    /\ UNCHANGED fnIn
    /\ UNCHANGED restVars

InitDeviceInit ==
    /\ InitRest
    /\ \E schema \in Schemas, keys \in Snapshots :
          Called([fn |-> "async_init", schema |-> schema, snapshot |-> keys])

NextDeviceInit ==
    \/ AsyncInitStart
    \/ AsyncInitItem
    \/ AsyncInitGlobal

SpecDeviceInit == InitDeviceInit /\ [][NextDeviceInit]_vars

(***************************************************************************)
(* TreeowSensor.  A number is held in thousandths, so that v / 10 of an    *)
(* integer or of a value with one decimal is exact.                        *)
(***************************************************************************)
Thousandths == 1000

NumVal(m) == [t |-> "num", m |-> m, s |-> ""]

TextVal(x) == [t |-> "str", m |-> 0, s |-> x]

NoneVal == [t |-> "none", m |-> 0, s |-> ""]

Magnitude(m) == IF m < 0 THEN 0 - m ELSE m

SCALE_ABOVE == 100

SCALE_DIVISOR == 10

\* mutant: 100 itself is divided as well
ExceedsScaleInclusive(m) == Magnitude(m) >= SCALE_ABOVE * Thousandths

\* abs(processed_value) > 100
ExceedsScale(m) == Magnitude(m) > SCALE_ABOVE * Thousandths

\* device_class in (TEMPERATURE, HUMIDITY)
IsTempOrHumidity(attribute) ==
    /\ "device_class" \in attribute.options.keys
    /\ attribute.options.device_class \in {"temperature", "humidity"}

\* _update_value: the native value for the value the device reports; the
\* comparison table of a sensor is empty
NativeValue(is_temp_or_humidity, value) ==
    IF value.t = "none" THEN NoneVal
    ELSE IF is_temp_or_humidity /\ value.t = "num" /\ ExceedsScale(value.m)
    THEN NumVal(value.m \div SCALE_DIVISOR)
    ELSE value

\* read-only entries of every display name of the model
SensorNames == {<<>>, <<"wendu">>, <<"shidu">>, <<"jiaquan">>, <<"leiji", "xiaoshi">>}

SensorEntries ==
    {Entry(id, Plain(n), "r", t, {}, 0, 0, 0, <<>>, <<>>) :
        id \in {"pm25", "value"}, n \in SensorNames, t \in {"integer", "double"}}

\* the integers a device reports, and two values with one decimal
RawIntegers == {-1005, -235, -101, -100, -23, 0, 1, 2, 23, 35, 100, 101, 235, 1000, 1005}

SensorValues ==
    {NumVal(v * Thousandths) : v \in RawIntegers}
        \cup {NumVal(23500), NumVal(100500), TextVal("on"), NoneVal}

SensorInit ==
    /\ fnPc = "called"
    /\ fnIn.fn = "sensor"
    /\ LET attribute == ParseAttributeOf(fnIn.attribute, {fnIn.attribute.identifier})
       IN /\ attribute.r = "attr"
          /\ attribute.platform = "sensor"
          /\ fnOut' = [r |-> "sensor",
                       device_class |-> attribute.options.device_class,
                       is_temp_or_humidity |-> IsTempOrHumidity(attribute),
                       value |-> NoneVal, native |-> NoneVal, again |-> NoneVal]
    /\ fnPc' = "built"
    /\ UNCHANGED fnIn
    /\ UNCHANGED restVars

\* a device_data_changed event carries the value
SensorUpdate(value) ==
    /\ fnPc = "built"
    /\ fnIn.fn = "sensor"
    /\ fnOut' = [fnOut EXCEPT !.value = value,
                              !.native = NativeValue(fnOut.is_temp_or_humidity, value)]
    /\ fnPc' = "shown"
    /\ UNCHANGED fnIn
    /\ UNCHANGED restVars

\* the value shown is reported as the value of the device
SensorUpdateAgain ==
    /\ fnPc = "shown"
    /\ fnIn.fn = "sensor"
    /\ fnOut' = [fnOut EXCEPT !.again = NativeValue(fnOut.is_temp_or_humidity, fnOut.native)]
    /\ fnPc' = "again"
    /\ UNCHANGED fnIn
    /\ UNCHANGED restVars

InitSensor ==
    /\ InitRest
    /\ \E e \in SensorEntries : Called([fn |-> "sensor", attribute |-> e])

NextSensor ==
    \/ SensorInit
    \/ \E value \in SensorValues : SensorUpdate(value)
    \/ SensorUpdateAgain

SpecSensor == InitSensor /\ [][NextSensor]_vars

(***************************************************************************)
(* An entity and the events of its device: TreeowAbstractEntity            *)
(* .async_added_to_hass with its data_callback, and _update_value of the   *)
(* sensor and of the switch.  The attributes of an event are a function    *)
(* from keys to values.                                                    *)
(***************************************************************************)
BoolVal(b) == [t |-> "bool", m |-> IF b THEN 1 ELSE 0, s |-> ""]

\* try_read_as_bool: defined for True, False and strings
ReadsAsBool(value) == value.t \in {"bool", "str"}

\* the strings of the model whose lower() is 'true'
TrueSpellings == {"true", "True", "TRUE"}

TryReadAsBool(value) ==
    IF value.t = "bool" THEN value.m = 1 ELSE value.s \in TrueSpellings

\* TreeowSwitch._update_value: what the switch shows and whether it is
\* available, from what it showed before
SwitchShown(shown, data, key) ==
    IF key \notin DOMAIN data \/ data[key].t = "none" THEN BoolVal(FALSE)
    ELSE IF ReadsAsBool(data[key]) THEN BoolVal(TryReadAsBool(data[key]))
    ELSE shown

SwitchAvailable(available, data, key) ==
    IF key \notin DOMAIN data \/ data[key].t = "none" THEN available
    ELSE ReadsAsBool(data[key])

\* self._attributes_data.get(key)
DataGet(data, key) == IF key \in DOMAIN data THEN data[key] ELSE NoneVal

\* _update_value of the entity of the given platform
UpdatedEntity(entity, platform, key, data) ==
    [entity EXCEPT
        !.data = data,
        !.shown = IF platform = "sensor" THEN NativeValue(FALSE, DataGet(data, key))
                  ELSE SwitchShown(entity.shown, data, key),
        !.available = IF platform = "sensor" THEN entity.available
                      ELSE SwitchAvailable(entity.available, data, key)]

\* data_callback: an event of another device is ignored; else the
\* attributes of the event replace _attributes_data and _update_value runs
DataCallbackOf(entity, bound, event) ==
    IF event.deviceId # bound.device THEN entity
    ELSE UpdatedEntity(entity, bound.platform, bound.key, event.attributes)

\* async_added_to_hass: the callbacks are registered and data_callback is
\* called with the snapshot of the device
EntityAdded ==
    /\ fnPc = "called" /\ fnIn.fn = "entity"
    /\ fnOut' = DataCallbackOf([r |-> "entity", data |-> <<>>, shown |-> NoneVal,
                                available |-> TRUE, n |-> 0, before |-> NoneVal,
                                event |-> DataChanged(fnIn.device, fnIn.snapshot)],
                               fnIn, DataChanged(fnIn.device, fnIn.snapshot))
    /\ fnPc' = "added"
    /\ UNCHANGED fnIn
    /\ UNCHANGED restVars

\* a device_data_changed event reaches the data_callback of the entity;
\* the event and what the entity showed before it are kept as history
DataCallback(event) ==
    /\ fnPc = "added" /\ fnIn.fn = "entity"
    /\ fnOut.n < MaxEvents
    /\ fnOut' = [DataCallbackOf(fnOut, fnIn, event) EXCEPT
                    !.n = @ + 1, !.event = event, !.before = fnOut.shown]
    /\ UNCHANGED <<fnPc, fnIn>>
    /\ UNCHANGED restVars

\* the value dicts of the events of the model
EventAttributes ==
    { <<>>,
      [k \in {"pm25"} |-> NumVal(35 * Thousandths)],
      [k \in {"switch"} |-> BoolVal(FALSE)],
      [k \in {"pm25", "switch"} |-> IF k = "pm25" THEN NumVal(12 * Thousandths)
                                    ELSE BoolVal(TRUE)],
      [k \in {"pm25", "switch"} |-> IF k = "pm25" THEN NoneVal ELSE TextVal("True")] }

EntityCalls ==
    {[fn |-> "entity", platform |-> p.platform, key |-> p.key, device |-> "d1", snapshot |-> s] :
        p \in {[platform |-> "sensor", key |-> "pm25"], [platform |-> "switch", key |-> "switch"]},
        s \in EventAttributes}

InitEntity ==
    /\ InitRest
    /\ \E a \in EntityCalls : Called(a)

NextEntity ==
    \/ EntityAdded
    \/ \E d \in Devices, a \in EventAttributes : DataCallback(DataChanged(d, a))

SpecEntity == InitEntity /\ [][NextEntity]_vars

(***************************************************************************)
(* The device filter: DeviceFilterConfig and async_remove_config_entry_    *)
(* device.  The stored filter is the 'device_filter' of the entry data, a  *)
(* filter type and the list of target devices; the object built from it    *)
(* holds the list and the set made of the list.                            *)
(***************************************************************************)
FILTER_TYPE_INCLUDE == "include"
FILTER_TYPE_EXCLUDE == "exclude"

\* the ids of the devices of hass.data and one id that get_devices did
\* not return
GoneDevice == "d9"
FilterIds == Devices \cup {"d3"}

\* DeviceFilterConfig.__init__
DeviceFilterConfig(stored) ==
    [filter_type |-> stored.filter_type,
     target_devices |-> stored.target_devices,
     target_devices_set |-> Range(stored.target_devices)]

\* DeviceFilterConfig.add_device
AddDevice(filter, id) ==
    IF id \notin filter.target_devices_set
    THEN [filter EXCEPT !.target_devices = Append(@, id),
                        !.target_devices_set = @ \cup {id}]
    ELSE filter

\* list.remove: the first occurrence is removed
RECURSIVE ListRemove(_, _)
ListRemove(list, id) ==
    IF list = <<>> THEN <<>>
    ELSE IF Head(list) = id THEN Tail(list)
    ELSE <<Head(list)>> \o ListRemove(Tail(list), id)

\* DeviceFilterConfig.remove_device
RemoveDeviceLeftInList(filter, id) ==
    IF id \in filter.target_devices_set
    THEN [filter EXCEPT !.target_devices_set = @ \ {id}]
    ELSE filter

RemoveDevice(filter, id) ==
    IF id \in filter.target_devices_set
    THEN [filter EXCEPT !.target_devices = ListRemove(@, id),
                        !.target_devices_set = @ \ {id}]
    ELSE filter

\* DeviceFilterConfig.is_skip
IsSkip(filter, id) ==
    IF filter.filter_type = FILTER_TYPE_EXCLUDE
    THEN id \in filter.target_devices_set
    ELSE id \notin filter.target_devices_set

\* DeviceFilterConfig.save: the 'device_filter' written to the entry data
FilterSaved(filter) ==
    [filter_type |-> filter.filter_type, target_devices |-> filter.target_devices]

\* the filter of async_remove_config_entry_device after add_device or
\* remove_device
FilterAfterRemoval(stored, id) ==
    IF stored.filter_type = FILTER_TYPE_EXCLUDE
    THEN AddDevice(DeviceFilterConfig(stored), id)
    ELSE RemoveDevice(DeviceFilterConfig(stored), id)

\* async_remove_config_entry_device: a device that is not among the
\* devices of hass.data is let go and the filter is not touched
RemoveConfigEntryDevice ==
    /\ fnPc = "called" /\ fnIn.fn = "remove"
    /\ fnOut' = IF fnIn.device \notin Devices
                THEN [r |-> "remove", result |-> TRUE, found |-> FALSE,
                      filter |-> DeviceFilterConfig(fnIn.stored),
                      stored |-> fnIn.stored, skipped |-> {}]
                ELSE [r |-> "remove", result |-> TRUE, found |-> TRUE,
                      filter |-> FilterAfterRemoval(fnIn.stored, fnIn.device),
                      stored |-> FilterSaved(FilterAfterRemoval(fnIn.stored, fnIn.device)),
                      skipped |-> {}]
    /\ fnPc' = "returned"
    /\ UNCHANGED fnIn
    /\ UNCHANGED restVars

\* async_register_entity after the reload: a DeviceFilterConfig is built
\* from the entry data and the devices it skips get no entity
RegisterEntities ==
    /\ fnPc = "returned" /\ fnIn.fn = "remove"
    /\ fnOut' = [fnOut EXCEPT
                    !.filter = DeviceFilterConfig(fnOut.stored),
                    !.skipped = {d \in Devices : IsSkip(DeviceFilterConfig(fnOut.stored), d)}]
    /\ fnPc' = "registered"
    /\ UNCHANGED fnIn
    /\ UNCHANGED restVars

\* the lists the options flow and add_device can store: no id twice
FilterLists ==
    {list \in UNION {[1..n -> FilterIds] : n \in 0..Cardinality(FilterIds)} :
        \A i, j \in DOMAIN list : list[i] = list[j] => i = j}

RemoveCalls ==
    {[fn |-> "remove", device |-> d,
      stored |-> [filter_type |-> t, target_devices |-> list]] :
        d \in Devices \cup {GoneDevice},
        t \in {FILTER_TYPE_EXCLUDE, FILTER_TYPE_INCLUDE},
        list \in FilterLists}

InitFilter ==
    /\ InitRest
    /\ \E a \in RemoveCalls : Called(a)

NextFilter ==
    \/ RemoveConfigEntryDevice
    \/ RegisterEntities

SpecFilter == InitFilter /\ [][NextFilter]_vars

(***************************************************************************)
(* The request headers: TreeowClient._generate_common_headers and the      *)
(* version look-ups of initialize_versions.  A version string is the       *)
(* sequence of its characters, a release name the sequence of the words    *)
(* name.split(' ') gives.                                                  *)
(***************************************************************************)
Digits == {"1", "2", "5", "8", "9"}

\* s.replace('.', '')
WithoutDots(s) == SelectSeq(s, LAMBDA ch : ch # ".")

\* s.isdigit(): at least one character and every character a digit
IsDigit(s) == Len(s) > 0 /\ \A i \in 1..Len(s) : s[i] \in Digits

\* s.split('(')[0]
RECURSIVE BeforeParen(_)
BeforeParen(s) ==
    IF s = <<>> \/ Head(s) = "(" THEN <<>>
    ELSE <<Head(s)>> \o BeforeParen(Tail(s))

\* the answer of the app store look-up: no result named 'Treeow Home' (or
\* the request failed), or the version of that result
NoTrack == <<"-">>

AppAnswers == {NoTrack, <<"1", ".", "2">>, <<"1", ".", "2", "b">>}

\* the answer of the release look-up: no iOS release with a name holding a
\* space (or the request failed), or the words of the name of the first one
NoRelease == <<>>

IosAnswers == {NoRelease,
               << <<"i">>, <<"1", "9">> >>,
               << <<"i">>, <<"1", "9", "(", "b", ")">> >>,
               << <<"i">>, <<"b">> >>}

\* the dict _generate_common_headers builds: the bearer token and the two
\* versions of the user-agent are the parts that vary
Headers(token, app, ios) == [authorization |-> token, app |-> app, ios |-> ios]

\* if self._header_cache is None: self._header_cache = {...}
CacheOrBuild(cache, token, app, ios) ==
    IF cache = NoHeaders THEN Headers(token, app, ios) ELSE cache

\* self._header_cache = None  # Invalidate cache
AfterVersionChange(cache) == NoHeaders

\* if not self._app_version.replace('.', '').isdigit(): use the default
Validated(version, default) ==
    IF IsDigit(WithoutDots(version)) THEN version ELSE default

hdrFrame == <<coreVars, libVars, entryVars, newerVars>>

\* get_devices composes the first request of a client; the polls and the
\* heartbeats compose theirs once the session runs, that is after
\* get_devices returned, and until the stop signal of the session is set
MayCall(t) ==
    /\ ~devSignal
    /\ hdrPc[t] = "idle"
    /\ hdrCalls[t] < MaxCalls
    /\ t # "listing" => hdrCalls["listing"] > 0 /\ hdrPc["listing"] = "idle"
    /\ t = "listing" => hdrCalls["listing"] = 0

(***************************************************************************)
(* _generate_common_headers is called.  With the versions initialized it   *)
(* returns without an await: the cached dict, built first if there is      *)
(* none.  Otherwise initialize_versions starts the two look-ups.           *)
(***************************************************************************)
GenerateCommonHeaders(t) ==
    /\ MayCall(t)
    /\ hdrCalls' = [hdrCalls EXCEPT ![t] = @ + 1]
    /\ IF versionsInitialized
       THEN /\ headerCache' = CacheOrBuild(headerCache, accessToken, appVersion, iosVersion)
            /\ returned' = [returned EXCEPT ![t] = headerCache']
            /\ hdrPc' = [hdrPc EXCEPT ![t] = "returned"]
            /\ UNCHANGED pending
       ELSE /\ hdrPc' = [hdrPc EXCEPT ![t] = "gather"]
            /\ pending' = [pending EXCEPT ![t] = {"app", "ios"}]
            /\ UNCHANGED <<headerCache, returned>>
    /\ UNCHANGED <<accessToken, appVersion, iosVersion, versionsInitialized>>
    /\ UNCHANGED hdrFrame

(***************************************************************************)
(* get_app_version: the look-up answered.                                  *)
(***************************************************************************)
GetAppVersion(t, answer) ==
    /\ "app" \in pending[t]
    /\ pending' = [pending EXCEPT ![t] = @ \ {"app"}]
    /\ IF answer = NoTrack
       THEN UNCHANGED <<appVersion, headerCache>>
       ELSE /\ appVersion' = answer
            /\ headerCache' = AfterVersionChange(headerCache)
    /\ UNCHANGED <<accessToken, iosVersion, versionsInitialized, hdrPc, returned, hdrCalls>>
    /\ UNCHANGED hdrFrame

(***************************************************************************)
(* get_ios_version: the look-up answered; the version is the second word   *)
(* of the name of the release, up to an opening parenthesis.               *)
(***************************************************************************)
GetIosVersion(t, answer) ==
    /\ "ios" \in pending[t]
    /\ pending' = [pending EXCEPT ![t] = @ \ {"ios"}]
    /\ IF answer = NoRelease
       THEN UNCHANGED <<iosVersion, headerCache>>
       ELSE /\ iosVersion' = BeforeParen(answer[2])
            /\ headerCache' = AfterVersionChange(headerCache)
    /\ UNCHANGED <<accessToken, appVersion, versionsInitialized, hdrPc, returned, hdrCalls>>
    /\ UNCHANGED hdrFrame

(***************************************************************************)
(* initialize_versions after its gather: a version that is not made of     *)
(* digits and dots is replaced by the default, the flag is set;            *)
(* _generate_common_headers goes on to build and return the headers.       *)
(***************************************************************************)
InitializeVersionsDone(t) ==
    /\ hdrPc[t] = "gather"
    /\ pending[t] = {}
    /\ appVersion' = Validated(appVersion, DEFAULT_APP_VERSION)
    /\ iosVersion' = Validated(iosVersion, DEFAULT_IOS_VERSION)
    /\ versionsInitialized' = TRUE
    /\ headerCache' = CacheOrBuild(headerCache, accessToken, appVersion', iosVersion')
    /\ returned' = [returned EXCEPT ![t] = headerCache']
    /\ hdrPc' = [hdrPc EXCEPT ![t] = "returned"]
    /\ UNCHANGED <<accessToken, pending, hdrCalls>>
    /\ UNCHANGED hdrFrame

(***************************************************************************)
(* The request that carries the headers is sent and answered.              *)
(***************************************************************************)
RequestDone(t) ==
    /\ hdrPc[t] = "returned"
    /\ hdrPc' = [hdrPc EXCEPT ![t] = "idle"]
    /\ UNCHANGED <<accessToken, appVersion, iosVersion, headerCache, versionsInitialized,
                   pending, returned, hdrCalls>>
    /\ UNCHANGED hdrFrame

\* async_setup_entry: client = TreeowClient(hass, account_cfg.access_token);
\* the token updater is in its loop and checks the token at once
InitHeaders ==
    /\ InitCore
    /\ LibIdle
    /\ ClientCreated(cfg.access_token)
    /\ EntryDefault
    /\ NewerOff

NextHeaders ==
    \/ \E t \in HeaderCallers : GenerateCommonHeaders(t)
    \/ \E t \in HeaderCallers, a \in AppAnswers : GetAppVersion(t, a)
    \/ \E t \in HeaderCallers, a \in IosAnswers : GetIosVersion(t, a)
    \/ \E t \in HeaderCallers : InitializeVersionsDone(t)
    \/ \E t \in HeaderCallers : RequestDone(t)
    \/ TokLoopEnter
    \/ VerifyOk
    \/ VerifyFail("invalid")
    \/ \E e \in ExpiresIn : LoginOk(e)
    \/ TokReload

SpecHeaders == InitHeaders /\ [][NextHeaders]_vars

(***************************************************************************)
(* The poll loop under every poll interval the configuration flow accepts: *)
(* the entry is created by async_step_user, then the session of Next runs. *)
(***************************************************************************)
InitInterval ==
    /\ InitCore
    /\ LibIdle
    /\ HdrIdle
    /\ \E p \in PollIntervals : EntryCreated(p)
    /\ NewerOff

SpecInterval == InitInterval /\ [][Next]_vars

(***************************************************************************)
(* The fan entity and the command it sends: TreeowFan.turn_on, turn_off,   *)
(* set_percentage, set_preset_mode fire one control event with a dict of   *)
(* commands, TreeowClient._send_command handles it.  A dict of commands is *)
(* the sequence of its (key, value) pairs in insertion order.              *)
(***************************************************************************)
NoPercentage == -1

NoPreset == "None"

\* homeassistant.util.percentage.percentage_to_ordered_list_item: the first
\* item whose upper bound (position * 100) // len reaches the percentage
RECURSIVE ItemFrom(_, _, _)
ItemFrom(ordered_list, percentage, position) ==
    IF position >= Len(ordered_list) THEN ordered_list[Len(ordered_list)]
    ELSE IF percentage <= (position * 100) \div Len(ordered_list)
         THEN ordered_list[position]
         ELSE ItemFrom(ordered_list, percentage, position + 1)

PercentageToOrderedListItem(ordered_list, percentage) ==
    ItemFrom(ordered_list, percentage, 1)

\* a fan entity after __init__ and _update_value: the key of its switch
\* (the 'switch' attribute of the device, else its own key), its speed
\* options with the reverse table, the reverse table of its modes
Fan(is_on, switch_key, speed_options, speed_reverse, mode_reverse) ==
    [is_on |-> is_on, switch_key |-> switch_key, speed_options |-> speed_options,
     speed_reverse |-> speed_reverse, mode_reverse |-> mode_reverse]

\* self._speed_key and self._speed_options
HasSpeed(fan) == fan.speed_options # <<>>

\* commands[switch_key] = True, unless the fan is on
SwitchOn(fan) == IF fan.is_on THEN <<>> ELSE << <<fan.switch_key, 1>> >>

\* commands[self._speed_key] = self._speed_reverse_table[speed_option], if
\* the option of the percentage is in the table
SpeedCommand(fan, percentage) ==
    LET speed_option == PercentageToOrderedListItem(fan.speed_options, percentage)
    IN IF speed_option \in DOMAIN fan.speed_reverse
       THEN << <<"fan_speed_enum", fan.speed_reverse[speed_option]>> >>
       ELSE <<>>

\* commands[self._mode_key] = self._mode_reverse_table[preset_mode]
ModeCommand(fan, preset_mode) == << <<"mode", fan.mode_reverse[preset_mode]>> >>

\* TreeowFan.turn_on: the commands it collects
TurnOnCommands(fan, percentage, preset_mode) ==
    SwitchOn(fan)
    \o (IF percentage # NoPercentage /\ HasSpeed(fan)
        THEN SpeedCommand(fan, percentage) ELSE <<>>)
    \o (IF preset_mode # NoPreset /\ preset_mode \in DOMAIN fan.mode_reverse
        THEN ModeCommand(fan, preset_mode) ELSE <<>>)

\* TreeowFan.turn_off
TurnOffCommands(fan) ==
    IF fan.is_on THEN << <<fan.switch_key, 0>> >> ELSE <<>>

\* TreeowFan.set_percentage: nothing without speed control, turn_off for 0,
\* nothing when the option is not in the table
SetPercentageCommands(fan, percentage) ==
    IF ~HasSpeed(fan) THEN <<>>
    ELSE IF percentage = 0 THEN TurnOffCommands(fan)
    ELSE IF SpeedCommand(fan, percentage) = <<>> THEN <<>>
    ELSE SwitchOn(fan) \o SpeedCommand(fan, percentage)

\* TreeowFan.set_preset_mode
SetPresetModeCommands(fan, preset_mode) ==
    IF preset_mode \notin DOMAIN fan.mode_reverse THEN <<>>
    ELSE SwitchOn(fan) \o ModeCommand(fan, preset_mode)

\* TreeowAbstractEntity._send_command: the control event, fired unless the
\* method returned before
ControlEvent(commands) ==
    [r |-> "event", attributes |-> commands, written |-> <<>>]

Emit(commands) ==
    /\ fnPc' = IF commands = <<>> THEN "done" ELSE "event"
    /\ fnOut' = IF commands = <<>> THEN [r |-> "nothing sent"] ELSE ControlEvent(commands)
    /\ UNCHANGED fnIn
    /\ UNCHANGED restVars

FanTurnOn ==
    /\ fnPc = "called" /\ fnIn.fn = "turn_on"
    /\ Emit(TurnOnCommands(fnIn.fan, fnIn.percentage, fnIn.preset_mode))

FanTurnOff ==
    /\ fnPc = "called" /\ fnIn.fn = "turn_off"
    /\ Emit(TurnOffCommands(fnIn.fan))

FanSetPercentage ==
    /\ fnPc = "called" /\ fnIn.fn = "set_percentage"
    /\ Emit(SetPercentageCommands(fnIn.fan, fnIn.percentage))

FanSetPresetMode ==
    /\ fnPc = "called" /\ fnIn.fn = "set_preset_mode"
    /\ Emit(SetPresetModeCommands(fnIn.fan, fnIn.preset_mode))

\* identifier = next(iter(command.keys())); value = command[identifier]:
\* the pairs _send_command writes to the device
WrittenOf(command) == IF command = <<>> THEN <<>> ELSE <<Head(command)>>

(***************************************************************************)
(* control_callback: _send_command(event.data['device'],                   *)
(* event.data['attributes']) sends its PUT.                                *)
(***************************************************************************)
SendCommand ==
    /\ fnPc = "event"
    /\ fnPc' = "done"
    /\ fnOut' = [fnOut EXCEPT !.r = "handled", !.written = WrittenOf(fnOut.attributes)]
    /\ UNCHANGED fnIn
    /\ UNCHANGED restVars

\* the fans of the model: on or off, with the 'switch' attribute or their
\* own key, with two speeds or none, with two modes or none
NoTable == [x \in {} |-> 0]

Fans ==
    {Fan(on, k, so.options, so.reverse, m) :
        on \in BOOLEAN, k \in {"switch", "fan"},
        so \in {[options |-> <<>>, reverse |-> NoTable],
                [options |-> <<"low", "high">>,
                 reverse |-> [x \in {"low", "high"} |-> IF x = "low" THEN 1 ELSE 2]]},
        m \in {NoTable, [x \in {"auto", "sleep"} |-> IF x = "auto" THEN 0 ELSE 1]}}

FanCalls ==
    {[fn |-> "turn_on", fan |-> f, percentage |-> p, preset_mode |-> m] :
        f \in Fans, p \in {NoPercentage, 50, 100}, m \in {NoPreset, "auto", "turbo"}}
    \cup {[fn |-> "turn_off", fan |-> f, percentage |-> NoPercentage, preset_mode |-> NoPreset] :
        f \in Fans}
    \cup {[fn |-> "set_percentage", fan |-> f, percentage |-> p, preset_mode |-> NoPreset] :
        f \in Fans, p \in {0, 50, 100}}
    \cup {[fn |-> "set_preset_mode", fan |-> f, percentage |-> NoPercentage, preset_mode |-> m] :
        f \in Fans, m \in {"auto", "sleep", "turbo"}}

InitFan ==
    /\ InitRest
    /\ \E a \in FanCalls : Called(a)

NextFan ==
    \/ FanTurnOn
    \/ FanTurnOff
    \/ FanSetPercentage
    \/ FanSetPresetMode
    \/ SendCommand

SpecFan == InitFan /\ [][NextFan]_vars

(***************************************************************************)
(* Claims about the control consumer, checked under SpecControl.           *)
(***************************************************************************)

\* C11: a control event whose command was written and verified is followed
\* at once by a one-off poll of its device, issued by the control path.
\* (control_callback awaits _send_command and nothing else: TLC finds this
\* violated.)
C11_ControlForcesPoll ==
    (ctl.pc = "done" /\ ctl.result = "ok") => ctl.polls = 1

\* C12: _send_command sends one PUT and then one GET; it returns without
\* an exception exactly when the value read back is the written one;
\* a different value raises with the message of the read-back envelope; no
\* step of the command fires an event.
C12_Outcome ==
    /\ ctl.gets <= ctl.puts
    /\ ctl.pc = "put" => (ctl.puts = 1 /\ ctl.gets = 0)
    /\ ctl.pc = "get" => (ctl.puts = 1 /\ ctl.gets = 1)
    /\ ctl.result = "ok" =>
          (ctl.puts = 1 /\ ctl.gets = 1 /\ ctl.readback = ctl.value /\ ctl.message = "none")
    /\ ctl.result = "rejected" =>
          /\ ctl.puts = 1 /\ ctl.gets = 1
          /\ ctl.readback # ctl.value
          /\ ctl.message = IF ctl.meta = <<>> THEN "Unknown error" ELSE ctl.meta.message

C12_CommandStep ==
    (ctl' # ctl) =>
        /\ events' = events
        /\ gatewayLog' = gatewayLog
        /\ snapshot' = snapshot
        /\ (ctl.pc = "get" /\ ctl'.result # "failed") =>
              (ctl'.result = "ok") = (ctl'.readback = ctl.value)

C12_SendAndVerify == []C12_Outcome /\ [][C12_CommandStep]_vars

\* C12 witness: a command was rejected for its read-back, the next one was
\* read back as written
C12_Witness ==
    /\ ctl.n = 2 /\ ctl.prev = "rejected"
    /\ ctl.result = "ok" /\ ctl.readback = ctl.value

\* C13: a command that fails (rejected write, mismatching read-back,
\* network error) changes nothing of the session: the loop stands where it
\* stood, the stop signal is untouched, the listener stays registered and
\* every heartbeat task lives on; as long as the entry is not unloaded the
\* session is running and its listener takes the next control event.
C13_StillServing ==
    (ctl.result \in {"failed", "rejected"} /\ ~devSignal) =>
        /\ sessPc \in {"loop", "poll", "sleep"}
        /\ listening
        /\ \A d \in Devices : HbLive(d)
        /\ \A i \in DOMAIN gatewayLog : gatewayLog[i].status

C13_FailureStep ==
    (ctl.pc \in {"put", "get"} /\ ctl'.result \in {"failed", "rejected"}) =>
        /\ sessPc' = sessPc
        /\ devSignal' = devSignal
        /\ listening' = listening
        /\ poll' = poll
        /\ hbPc' = hbPc /\ hbSignal' = hbSignal /\ hbCancel' = hbCancel
        /\ hbDelay' = hbDelay
        /\ gatewayLog' = gatewayLog

C13_FailedCommandContained == []C13_StillServing /\ [][C13_FailureStep]_vars

\* C13 witness: after a command that failed, a poll cycle has run, the
\* heartbeats live and the next command has succeeded
C13_Witness ==
    /\ ctl.n = 2 /\ ctl.prev = "failed" /\ ctl.result = "ok"
    /\ ~devSignal /\ sessPc = "poll" /\ cycles >= 1
    /\ \A d \in Devices : HbLive(d)

(***************************************************************************)
(* Claims about the life of a session, checked under SpecLifecycle and     *)
(* Spec.                                                                   *)
(***************************************************************************)
FalseOf(id) == {i \in DOMAIN gatewayLog : gatewayLog[i] = GatewayStatus(id, FALSE)}

TrueOf(id) == {i \in DOMAIN gatewayLog : gatewayLog[i] = GatewayStatus(id, TRUE)}

Drained ==
    /\ ~listening
    /\ \A d \in Devices : hbPc[d] = "ended" /\ hbSignal[d] /\ hbCancel[d]

\* C14: the session fires gateway_status_changed(False) at most once, only
\* in the step that ends it, after its listener is cancelled and every
\* heartbeat task was signalled and has ended, and only if its process id
\* is the recorded one in that step; a stopped session that was still the
\* current one has fired it; no False of the session follows the True of a
\* newer session.
C14_Shutdown ==
    /\ Cardinality(FalseOf(procId)) <= 1
    /\ FalseOf(procId) # {} => sessPc = "stopped"
    /\ sessPc = "stopped" => Drained
    /\ (sessPc = "stopped" /\ procId = currentId) => FalseOf(procId) # {}
    /\ \A i \in FalseOf(procId) :
          \A j \in 1..(i - 1) : gatewayLog[j].by <= procId

C14_PublishStep ==
    (FalseOf(procId)' # FalseOf(procId)) =>
        /\ sessPc = "draining" /\ sessPc' = "stopped"
        /\ procId = currentId
        /\ Drained

C14_GuardedShutdown == []C14_Shutdown /\ [][C14_PublishStep]_vars

\* C14 witness: the session stopped after a newer one had started, and it
\* fired no False
C14_Witness ==
    /\ sessPc = "stopped"
    /\ currentId = procId + 1
    /\ TrueOf(currentId) # {}
    /\ FalseOf(procId) = {}
    /\ Drained

Phase(pc) ==
    CASE pc = "off" -> 0
      [] pc \in {"loop", "poll", "sleep", "backoff"} -> 1
      [] pc = "draining" -> 2
      [] pc = "stopped" -> 3

\* C15: before the session starts nothing of it exists; the step that
\* starts it records a fresh process id as the current one, creates one
\* heartbeat task per device, registers the listener and fires
\* gateway_status_changed(True), and no poll has started by then; the
\* session fires True exactly once, before any device_data_changed; it
\* only moves forward through off, running, draining, stopped.
C15_Started ==
    /\ sessPc = "off" =>
          /\ gatewayLog = <<>> /\ procId = 0 /\ ~listening
          /\ \A d \in Devices : hbPc[d] = "off" /\ events[d] = <<>> /\ poll[d] = "idle"
    /\ sessPc # "off" =>
          /\ procId >= 1
          /\ Cardinality(TrueOf(procId)) = 1
          /\ \A d \in Devices : hbPc[d] # "off"
    /\ Phase(sessPc) = 1 =>
          /\ listening
          /\ \A d \in Devices : HbLive(d)
    /\ \A d \in Devices : events[d] # <<>> => TrueOf(procId) # {}

C15_StartStep ==
    /\ Phase(sessPc') \in {Phase(sessPc), Phase(sessPc) + 1}
    /\ (sessPc = "off" /\ sessPc' # "off") =>
          /\ sessPc' = "loop"
          /\ procId' > currentId
          /\ currentId' = procId'
          /\ \A d \in Devices : hbPc'[d] = "put" /\ ~hbSignal'[d]
          /\ listening'
          /\ gatewayLog' = Append(gatewayLog, GatewayStatus(procId', TRUE))
          /\ poll' = poll /\ events' = events /\ cycles' = 0

C15_Starting == []C15_Started /\ [][C15_StartStep]_vars

\* C15 witness: the first poll cycle of a session started in the model has
\* fired an event, after the one True
C15_Witness ==
    /\ cleanupCounter = 0 /\ cycles = 0 /\ sessPc = "poll"
    /\ events["d1"] # <<>>
    /\ gatewayLog = <<GatewayStatus(procId, TRUE)>>
    /\ procId = currentId

\* min(2^(k-1), 10): the wait after the k-th consecutive failure
HeartbeatWait(k) == Min(2 ^ (k - 1), HEARTBEAT_INTERVAL)

\* C16: the heartbeat delay of every device stays within 1..10; in the
\* sleep after a successful write the delay is 1 and the sleep lasts 10 s;
\* the sleep after the k-th consecutive failure lasts min(2^(k-1), 10) s;
\* a failure of one device's heartbeat changes nothing of another's.
C16_Delays ==
    \A d \in Devices :
        /\ hbDelay[d] \in HEARTBEAT_RETRY_DELAY..HEARTBEAT_INTERVAL
        /\ hbPc[d] = "sleep" =>
              (hbDelay[d] = 1 /\ hbWait[d] = HEARTBEAT_INTERVAL /\ hbFails[d] = 0)
        /\ hbPc[d] = "retry_sleep" =>
              (hbFails[d] >= 1 /\ hbWait[d] = HeartbeatWait(hbFails[d]))
        /\ hbPc[d] = "put" => hbDelay[d] = HeartbeatWait(hbFails[d] + 1)

C16_IndependentStep ==
    \A a, b \in Devices :
        (a # b /\ hbFails'[a] > hbFails[a]) =>
            /\ hbPc'[b] = hbPc[b]
            /\ hbDelay'[b] = hbDelay[b]
            /\ hbWait'[b] = hbWait[b]
            /\ hbFails'[b] = hbFails[b]
            /\ hbSignal'[b] = hbSignal[b] /\ hbCancel'[b] = hbCancel[b]

C16_HeartbeatBackoff == []C16_Delays /\ [][C16_IndependentStep]_vars

\* C16 witness: the heartbeat of d1 sleeps 10 s after its fifth failure in
\* a row while that of d2 sleeps its interval after a success
C16_Witness ==
    /\ hbPc["d1"] = "retry_sleep" /\ hbFails["d1"] = 5 /\ hbWait["d1"] = 10
    /\ hbPc["d2"] = "sleep" /\ hbDelay["d2"] = 1

(***************************************************************************)
(* Claims about the delays of the poll loop, checked under SpecBackoff,    *)
(* Spec and SpecNetFail.                                                   *)
(***************************************************************************)

\* min(5 * 2^(k-1), 60): the wait after the k-th consecutive failure
LoopWait(k) == Min(RETRY_DELAY * 2 ^ (k - 1), MAX_RETRY_DELAY)

\* C17: retry_delay stays within 5..60; it is 5 when the session starts and
\* after every cycle that ran through; the sleep after the k-th consecutive
\* failure of the loop body lasts min(5 * 2^(k-1), 60) s; the cap of 60 s
\* is larger than the 10 s cap of the heartbeat.
C17_Delays ==
    /\ retryDelay \in RETRY_DELAY..MAX_RETRY_DELAY
    /\ MAX_RETRY_DELAY > HEARTBEAT_INTERVAL
    /\ sessPc = "backoff" => (loopFails >= 1 /\ pollSleep = LoopWait(loopFails))
    /\ (sessPc # "backoff" /\ loopFails = 0) => retryDelay = RETRY_DELAY
    /\ sessPc \in {"loop", "poll", "sleep"} => retryDelay = LoopWait(loopFails + 1)

C17_ResetStep ==
    (sessPc = "sleep" /\ sessPc' = "loop") => (retryDelay' = RETRY_DELAY /\ loopFails' = 0)

C17_LoopBackoff == []C17_Delays /\ [][C17_ResetStep]_vars

\* C17 witness: the loop sleeps 60 s after the fifth failure in a row
C17_Witness ==
    sessPc = "backoff" /\ loopFails = 5 /\ pollSleep = MAX_RETRY_DELAY

\* C18: the sleep that follows a cycle all of whose fetches failed lasts
\* the retry delay of the loop (5 s or more).
\* (_poll_device catches the failure, the loop sleeps the poll interval of
\* 1 s: TLC finds this violated.)
C18_FailedCycleBacksOff ==
    (sessPc = "sleep" /\ \A d \in Devices : resp[d] = "fail") =>
        (pollSleep = retryDelay /\ pollSleep >= RETRY_DELAY)

\* C19: as long as the stop signal is not set the failing session is
\* running and has fired no gateway_status_changed(False), and it starts a
\* poll cycle again and again.
C19_NeverTerminates ==
    /\ [](~devSignal =>
            /\ sessPc \in {"loop", "poll", "sleep"}
            /\ \A i \in DOMAIN gatewayLog : gatewayLog[i].status)
    /\ []<>(devSignal \/ sessPc = "poll")
    /\ []<>(devSignal \/ sessPc = "sleep")

\* C19 witness: after three cycles and more the session is in a cycle
\* again, all of whose fetches have failed
C19_Witness ==
    /\ ~devSignal /\ sessPc = "poll" /\ cycles = MaxCycles
    /\ \A d \in Devices : resp[d] = "fail"
    /\ \A i \in DOMAIN gatewayLog : gatewayLog[i].status

(***************************************************************************)
(* Claim about the device listing, checked under SpecListing.              *)
(***************************************************************************)

\* C20: the list get_devices returns holds no device whose async_init
\* raised and none of a group whose listing failed, and it holds every
\* other device, also those of the group of a device that failed.
\* (The exception of async_init ends the task of the whole group: TLC
\* finds this violated.)
C20_ListingIsolation ==
    listPc = "done" =>
        \A g \in Groups : \A i \in DOMAIN Members[g] :
            (Members[g][i] \in Range(listed)) =
                (g \notin broken.groups /\ Members[g][i] \notin broken.devices)

(***************************************************************************)
(* Claim about the response check, checked under SpecEnvelope.             *)
(***************************************************************************)

\* the envelope the status is read from: meta, else result, else the
\* response itself
EnvelopeOf(r) ==
    IF "meta" \in r.keys THEN r.meta
    ELSE IF "result" \in r.keys THEN r.result
    ELSE [keys |-> r.keys \cap {"code", "msg"}, code |-> r.code, text |-> r.msg]

\* C21: _assert_response_successful returns without an exception exactly
\* when the envelope (meta if present, else result if present, else the
\* response itself) carries the code 200 and nothing in it contains
\* 'error'; a response with no meta, no result and no code raises.
C21_AcceptsOnlySuccess ==
    (fnPc = "returned" /\ fnIn.fn = "assert_response") =>
        LET e == EnvelopeOf(fnIn.resp) IN
        /\ (fnOut.r = "ok") =
              /\ "code" \in e.keys /\ e.code = 200
              /\ e.keys \cap ErrorWords = {}
              /\ \A i \in DOMAIN e.text : e.text[i] \notin ErrorWords
        /\ fnOut.r \in {"ok", "raise"}
        /\ fnIn.resp.keys \cap {"meta", "result", "code"} = {} => fnOut.r = "raise"

\* C21 witness: a response with a result envelope of code 200 and a bare
\* code 500 is accepted: the envelope decides
C21_Witness ==
    /\ fnPc = "returned" /\ fnIn.fn = "assert_response"
    /\ fnIn.resp.keys = {"result", "code"}
    /\ fnIn.resp.code = 500
    /\ fnOut.r = "ok"

(***************************************************************************)
(* Claims about parse_attribute, checked under SpecParse.                  *)
(***************************************************************************)

\* the kind the rules of C22 give an entry
C22_Kind(e, keys) ==
    IF e.identifier \notin keys \/ e.identifier \in {"wifi_info", "timestamp"} THEN "none"
    ELSE IF e.access = "r" THEN "sensor"
    ELSE IF e.access # "rw" THEN "none"
    ELSE IF e.type = "boolean" THEN "switch"
    ELSE IF e.type \in {"integer", "Integer", "double"} /\ "step" \in e.has THEN "number"
    ELSE IF e.type = "integer" /\ "enum" \in e.has THEN "select"
    ELSE "none"

\* C22: parse_attribute rejects an entry whose identifier is not a key of
\* the snapshot or is wifi_info or timestamp; else read-only gives a
\* sensor, read-write boolean a switch, read-write integer or double with
\* a step a number whose minimum, maximum and step are those of the schema
\* (whether or not an enum list is declared), read-write integer with an
\* enum list a select, and anything else is rejected.
C22_FirstMatchWins ==
    (fnPc = "returned" /\ fnIn.fn = "parse_attribute") =>
        LET e == fnIn.attribute
            kind == C22_Kind(e, fnIn.snapshot)
        IN /\ (fnOut.r = "none") = (kind = "none")
           /\ fnOut.r # "none" =>
                 /\ fnOut.platform = kind
                 /\ fnOut.key = e.identifier
           /\ (fnOut.r # "none" /\ kind = "number" /\ "minimum" \in e.has) =>
                 /\ fnOut.options.native_min_value = e.minimum
                 /\ fnOut.options.native_max_value = e.maximum
                 /\ fnOut.options.native_step = e.step

\* C22 witness: a read-write integer entry with a step, bounds and an enum
\* list has become a number
C22_Witness ==
    /\ fnPc = "returned" /\ fnIn.fn = "parse_attribute"
    /\ fnIn.attribute.access = "rw" /\ fnIn.attribute.type = "integer"
    /\ fnIn.attribute.has = {"minimum", "maximum", "step", "enum"}
    /\ fnOut.r = "attr" /\ fnOut.platform = "number"
    /\ fnOut.options.native_min_value = 16 /\ fnOut.options.native_max_value = 30

\* the name holds a keyword of SENSOR_KEYWORDS
NameMatches(name) == \E i \in DOMAIN SENSOR_KEYWORDS : SENSOR_KEYWORDS[i][1] \in Range(name)

\* C23: a read-only integer or double entry gives a sensor, and the sensor
\* carries a device class, state class or unit exactly when the identifier
\* or the display name matches a rule.
\* (_parse_as_sensor looks for a rule only when the type is integer: TLC
\* finds this violated for a double.)
C23_ClassIffRuleMatches ==
    (/\ fnPc = "returned" /\ fnIn.fn = "parse_attribute"
     /\ fnIn.attribute.access = "r"
     /\ fnIn.attribute.type \in {"integer", "double"}
     /\ C22_Kind(fnIn.attribute, fnIn.snapshot) = "sensor") =>
        /\ fnOut.r = "attr" /\ fnOut.platform = "sensor"
        /\ (fnOut.options.keys # {}) =
              \/ fnIn.attribute.identifier \in {"pm25", "aal"}
              \/ NameMatches(fnIn.attribute.title.words)

\* C24: for a read-only integer entry, an identifier that contains pm25 or
\* aal decides the classes and the unit, whatever the display name holds.
\* (The code looks the identifier up as a key of IDENTIFIER_MAPPINGS:
\* pm25_out is no key, and TLC finds this violated.)
C24_IdentifierRuleFirst ==
    (/\ fnPc = "returned" /\ fnIn.fn = "parse_attribute"
     /\ fnIn.attribute.access = "r" /\ fnIn.attribute.type = "integer"
     /\ fnIn.attribute.identifier \in {"pm25", "pm25_out"}
     /\ fnOut.r = "attr") =>
        /\ fnOut.options.device_class = "pm25"
        /\ fnOut.options.state_class = "measurement"
        /\ fnOut.options.unit = "ug/m3"

(***************************************************************************)
(* Claim about the select entity, checked under SpecSelect.                *)
(***************************************************************************)

Composites == {j \in DOMAIN fnOut.attributes : fnOut.attributes[j].platform = "fan"}

C29_UniqueKeys ==
    (fnPc = "done" /\ fnIn.fn = "async_init") =>
        \A i, j \in DOMAIN fnOut.attributes :
            i # j => fnOut.attributes[i].key # fnOut.attributes[j].key

(***************************************************************************)
(* Claims about the sensor entity, checked under SpecSensor.               *)
(***************************************************************************)

C28_Formaldehyde ==
    (/\ fnIn.fn = "sensor" /\ fnPc = "shown"
     /\ "jiaquan" \in Range(fnIn.attribute.title.words)
     /\ fnIn.attribute.identifier = "value"
     /\ fnOut.value.t = "num") =>
        IF fnOut.value.m > 1000
        THEN 1000 * fnOut.native.m = fnOut.value.m
        ELSE fnOut.native = fnOut.value

(***************************************************************************)
(* Claim about the sweep of the cache, checked under Spec.                 *)
(***************************************************************************)

\* C30: the cleanup counter of the session stays within 0..59; only an
\* entry of age >= 3600 s ever leaves the cache, and it leaves it either
\* in the step that ends the sleep of the 60th cycle since the last sweep
\* or in the poll of its own device, which looks it up (a lookup sweeps
\* nothing else); every step that ends the 60th cycle sweeps: after it no
\* entry of age >= 3600 s is left and every entry of age < 3600 s is there
\* with its schema and its time unchanged; the step that ends any other
\* cycle leaves the cache as it is.
C30_SweepStep ==
    /\ \A d \in DOMAIN dmCache :
          d \notin DOMAIN dmCache' =>
              /\ now - dmCacheTime[d] >= 3600
              /\ \/ sessPc = "sleep" /\ cleanupCounter = 59 /\ cleanupCounter' = 0
                 \/ poll[d] = "fetch" /\ poll'[d] = "schema"
    /\ (sessPc = "sleep" /\ sessPc' = "loop") =>
          IF cleanupCounter = 59
          THEN /\ cleanupCounter' = 0
               /\ \A d \in DOMAIN dmCacheTime' : now - dmCacheTime'[d] < 3600
               /\ DOMAIN dmCache' = DOMAIN dmCacheTime'
               /\ \A d \in DOMAIN dmCache :
                     now - dmCacheTime[d] < 3600 =>
                         /\ d \in DOMAIN dmCache'
                         /\ dmCache'[d] = dmCache[d]
                         /\ dmCacheTime'[d] = dmCacheTime[d]
          ELSE /\ cleanupCounter' = cleanupCounter + 1
               /\ dmCache' = dmCache
               /\ dmCacheTime' = dmCacheTime

C30_PeriodicSweep == [](cleanupCounter \in 0..59) /\ [][C30_SweepStep]_vars

\* C30 witness: the session is past the sweep that ended its 60th cycle:
\* one device, whose fetch failed in that cycle, has no entry, the other
\* has an entry of age < 3600 s
C30_Witness ==
    /\ sessPc = "loop" /\ cleanupCounter = 0 /\ cycles >= 1
    /\ \E d \in Devices : d \notin DOMAIN dmCache /\ resp[d] = "fail"
    /\ \E d \in DOMAIN dmCache : now - dmCacheTime[d] < 3600

(***************************************************************************)
(* Claim about the request headers, checked under SpecHeaders.             *)
(***************************************************************************)
\* the call of caller t returns in this step
Returns(t) == hdrPc[t] # "returned" /\ hdrPc'[t] = "returned"

\* C31: the headers a call of _generate_common_headers returns carry the
\* access token the account configuration holds at that moment and the app
\* and iOS versions the client holds at that moment.
C31_FreshHeaders ==
    [][\A t \in HeaderCallers :
          Returns(t) => returned'[t] = Headers(cfg'.access_token, appVersion', iosVersion')]_vars

(***************************************************************************)
(* Claim about the poll interval, checked under SpecInterval.              *)
(***************************************************************************)
\* C32: while listen_devices sleeps between two poll cycles, the argument
\* of its asyncio.sleep is the poll_interval of the config entry.
C32_ConfiguredInterval ==
    sessPc = "sleep" => pollSleep = pollInterval

(***************************************************************************)
(* Claims about concurrent look-ups of the cache, checked under SpecCache. *)
(***************************************************************************)
\* the call of caller c ends in this step
Ends(c) == call[c].pc = "fetch" /\ call'[c].pc = "idle"

\* C33: when a get_digital_model_from_cache call that overlapped another
\* call for the same device ends, the other calls go on as they were; if it
\* fetched a list, it returns the list of its own fetch, the cache entry of
\* the device is that list with the time of that call, and the entries of
\* the other devices are untouched; if its fetch failed, the cache is as it
\* was.
C33_OverlapStep ==
    \A c \in Callers :
        (Ends(c) /\ call[c].overl) =>
            LET d == call[c].dev
            IN /\ \A x \in Callers \ {c} : call'[x] = call[x]
               /\ lastGet'.dev = d /\ lastGet'.overl
               /\ lastGet'.ok =>
                     /\ lastGet'.ret \in {RemoteModel(call[c].ver), <<>>}
                     /\ d \in DOMAIN dmCache' /\ dmCache'[d] = lastGet'.ret
                     /\ d \in DOMAIN dmCacheTime' /\ dmCacheTime'[d] = call[c].time
                     /\ DictDel(dmCache', d) = DictDel(dmCache, d)
                     /\ DictDel(dmCacheTime', d) = DictDel(dmCacheTime, d)
               /\ ~lastGet'.ok =>
                     dmCache' = dmCache /\ dmCacheTime' = dmCacheTime

C33_LastWriterWins == [][C33_OverlapStep]_vars

\* C33 witness: two overlapping calls for one device have both ended, the
\* one that ended last fetched a list other than the one its device object
\* now reports, and the cache holds the list of that call
C33_Witness ==
    /\ \A c \in Callers : call[c].pc = "idle"
    /\ lastGet.overl /\ lastGet.ok /\ lastGet.fetches = 1
    /\ lastGet.dev \in DOMAIN dmCache
    /\ dmCache[lastGet.dev] = lastGet.ret
    /\ lastGet.ret # RemoteModel(devVersion[lastGet.dev])

\* C40: between any two steps of the look-ups and the sweep, the value map
\* and the timestamp map of the cache have the same keys; hence the del
\* statements of the look-up and of the sweep always find their key.
C40_SameKeys ==
    /\ DOMAIN dmCache = DOMAIN dmCacheTime
    /\ ExpiredDevices \subseteq DOMAIN dmCache

\* C40 witness: a look-up has deleted an expired entry and awaits its fetch
\* while the entry of another device is in the cache
C40_Witness ==
    \E c \in Callers :
        /\ call[c].pc = "fetch"
        /\ call[c].age >= CACHE_EXPIRATION
        /\ call[c].dev \notin DOMAIN dmCache
        /\ DOMAIN dmCache # {}

(***************************************************************************)
(* Claim about the commands of the fan, checked under SpecFan.             *)
(***************************************************************************)
\* C34: when _send_command has handled a control event, it has written
\* every (key, value) pair of the attributes of the event.
C34_EveryKeyWritten ==
    (fnPc = "done" /\ fnOut.r = "handled") => fnOut.written = fnOut.attributes

(***************************************************************************)
(* Claim about sessions across a reload, checked under SpecLifecycle.      *)
(***************************************************************************)
\* hass.bus.fire calls every registered listener, and each control_callback
\* sends the PUT of the command
WritesPerEvent ==
    (IF listening THEN 1 ELSE 0) + (IF newerListening THEN 1 ELSE 0)

\* C35: at any time at most one session has its control listener
\* registered, at most one heartbeat task per device is alive, and a
\* control event results in at most one write.
C35_NoOverlap ==
    /\ ~(listening /\ newerListening)
    /\ \A d \in Devices : ~(HbLive(d) /\ newerHb[d])
    /\ WritesPerEvent <= 1

(***************************************************************************)
(* Claim about stopping a session, checked under SpecStop.                 *)
(***************************************************************************)
C36_StopStep ==
    /\ devSignal => ~(sessPc = "loop" /\ sessPc' = "poll")
    /\ sessPc = "stopped" =>
          /\ sessPc' = "stopped"
          /\ ~listening /\ ~listening'
          /\ \A d \in Devices : hbPc[d] = "ended"
          /\ hbPc' = hbPc
          /\ events' = events

\* C36: once the stop signal of a session is set, the session starts no
\* further poll cycle and eventually reaches Stopped; there its control
\* listener is cancelled and its heartbeat tasks have ended, and from then
\* on it sends no heartbeat and fires no device_data_changed event.
C36_StopsCleanly ==
    /\ devSignal ~> (sessPc = "stopped")
    /\ [][C36_StopStep]_vars

\* C36 witness: a session that published events and was then stopped has
\* returned, its listener cancelled and its heartbeat tasks ended
C36_Witness ==
    /\ devSignal /\ sessPc = "stopped" /\ ~listening
    /\ \A d \in Devices : hbPc[d] = "ended"
    /\ \E d \in Devices : events[d] # <<>>
    /\ cycles >= 1

(***************************************************************************)
(* Claim about the loop of the token updater, checked under SpecToken.     *)
(***************************************************************************)
\* the run of _try_update_token inside the updater ends in this step
UpdaterRunEnds(result) ==
    run.by = "updater" /\ run.result = "running" /\ run'.result = result

C37_LoopStep ==
    /\ UpdaterRunEnds("Refreshed") => tokPc' = "reload"
    /\ (tokPc # "reload" /\ tokPc' = "reload") => UpdaterRunEnds("Refreshed")
    /\ tokPc = "reload" => tokPc' \in {"reload", "done"}
    /\ (tokPc = "done" /\ tokPc' # "done") => (tokPc' = "verify" /\ run'.by = "setup")
    /\ UpdaterRunEnds("Unchanged") =>
          /\ tokPc' = "check_sleep"
          /\ tokenRetryDelay' = TOKEN_RETRY_DELAY
          /\ sleepFor' = TOKEN_CHECK_INTERVAL
    /\ (tokPc = "check_sleep" /\ tokPc' # "check_sleep") =>
          (tokPc' = "loop" /\ tokenRetryDelay' = tokenRetryDelay)
    /\ UpdaterRunEnds("raised") =>
          /\ tokPc' = "retry_sleep"
          /\ sleepFor' = tokenRetryDelay
          /\ tokenRetryDelay' = tokenRetryDelay
    /\ (tokPc = "retry_sleep" /\ tokPc' # "retry_sleep") =>
          /\ tokPc' = "loop"
          /\ tokenRetryDelay' = Min(2 * tokenRetryDelay, TOKEN_MAX_RETRY_DELAY)
    /\ (tokPc = "loop" /\ tokPc' = "verify") => ~tokSignal
    /\ (tokPc = "loop" /\ tokSignal) => tokPc' \in {"loop", "stopped"}

C38_OmittedKeyKeepsValue ==
    (fnPc = "added" /\ fnOut.n > 0) =>
        ((fnOut.event.deviceId # fnIn.device
             \/ fnIn.key \notin DOMAIN fnOut.event.attributes) =>
            fnOut.shown = fnOut.before)

(***************************************************************************)
(* Claim about the device filter, checked under SpecFilter.                *)
(***************************************************************************)
\* C39: after async_remove_config_entry_device returned True for a device
\* of the integration, is_skip of that device is true under both filter
\* types, is_skip of every other device is what it was before, and the
\* target list and the lookup set hold the same ids; this is so for the
\* filter of the call and for the filter built from the saved entry data.
C39_RemovedDeviceSkipped ==
    (fnPc \in {"returned", "registered"} /\ fnOut.result /\ fnOut.found) =>
        \A filter \in {fnOut.filter, DeviceFilterConfig(fnOut.stored)} :
            /\ IsSkip(filter, fnIn.device)
            /\ \A other \in (FilterIds \cup {GoneDevice}) \ {fnIn.device} :
                  IsSkip(filter, other) = IsSkip(DeviceFilterConfig(fnIn.stored), other)
            /\ Range(filter.target_devices) = filter.target_devices_set

\* the device was listed under 'include' with others and was taken out of
\* the list, and the entities were registered without it
C39_Witness ==
    /\ fnPc = "registered" /\ fnOut.found
    /\ fnIn.stored.filter_type = FILTER_TYPE_INCLUDE
    /\ Len(fnIn.stored.target_devices) = 3
    /\ Len(fnOut.stored.target_devices) = 2
    /\ fnIn.device \in fnOut.skipped

=============================================================================
